---- MODULE Spec2Model ----
(***************************************************************************)
(* A model of arbiter v0.0.1 (Go): the event pipeline of                   *)
(* internal/app/service.go over the in-memory store of                     *)
(* internal/store/memory.go, the gate, the planner, the authorization      *)
(* provider and the JSONL audit logger.                                    *)
(*                                                                         *)
(* Each request is handled by its own goroutine (net/http).  Every method  *)
(* of MemoryStore and JSONLLogger.Append runs under a mutex, so one such   *)
(* call is one atomic step; a handler is a sequence of such steps, and     *)
(* the steps of concurrent handlers interleave.  Computation on locals     *)
(* (validation, gate, planner, plan construction) is folded into the       *)
(* neighbouring step.                                                      *)
(*                                                                         *)
(* Modelling conventions.  Timestamps are whole seconds since the Unix     *)
(* epoch.  sha256 and its 8-byte truncation in NewPlanID / NewActionID are *)
(* modelled as injective on the hashed string (the string itself, with a   *)
(* prefix).  Strings are TLA+ strings; key construction is concatenation,  *)
(* as in the code.                                                         *)
(***************************************************************************)
EXTENDS Integers, Sequences, FiniteSets, TLC

(* ------------------------------ bounds --------------------------------- *)

\* Total number of handler calls (ProcessEvent + ProcessGeneration) started.
MaxCalls == 3

\* Request goroutines that may be in flight at once.
Procs == 1..2

(* --------------------------- program constants ------------------------- *)

ContractVersion == 0

ActionDoNothing == "do_nothing"
ActionRequestGeneration == "request_generation"
ActionSendMessage == "send_message"
ActionSendReply == "send_reply"

IntentIgnore == "IGNORE"
IntentReply == "REPLY"
IntentMessage == "MESSAGE"

\* eventTime.Unix() / 60
SecondsPerMinute == 60

\* time.Duration(CooldownMS) * time.Millisecond, against whole seconds
MillisPerSecond == 1000

\* best-effort cleanup: bucket < minuteBucket-5
RateKeepBuckets == 5

\* time.Time{} (0001-01-01T00:00:00Z, Unix second -62135596800, outside
\* TLC's integers): a sentinel below every other timestamp of the model.
ZeroTime == -1000000

\* A nil pointer or nil map; a non-nil *string s is <<s>>.
Nil == <<>>

NoError == ""

(* ------------------------------ Go helpers ----------------------------- *)

\* Go's integer division truncates toward zero.
GoDiv(a, b) ==
    IF a >= 0 THEN a \div b ELSE -((-a) \div b)

\* strings.TrimSpace(s) == "" for the strings of the model.
IsBlank(s) == s \in {"", " "}

IsZero(t) == t = ZeroTime

(* ------------------------------ domain --------------------------------- *)

\* time.Parse(time.RFC3339, e.TS): a TS string is modelled by whether it
\* parses and, if so, the instant it denotes.
TSParses(ts) == ts.ok

ValidateAcceptsAll(e) == NoError

Validate(e) ==
    IF e.v # ContractVersion THEN "v must be 0"
    ELSE IF IsBlank(e.event_id) THEN "event_id is required"
    ELSE IF IsBlank(e.tenant_id) THEN "tenant_id is required"
    ELSE IF IsBlank(e.source) THEN "source is required"
    ELSE IF IsBlank(e.room_id) THEN "room_id is required"
    ELSE IF IsBlank(e.actor_id) THEN "actor.id is required"
    ELSE IF e.actor_type \notin {"human", "service", "system"} THEN "actor.type is invalid"
    ELSE IF e.content_type # "text" THEN "content.type must be text"
    ELSE IF ~TSParses(e.ts) THEN "ts must be RFC3339"
    ELSE NoError

ParsedTS(e) ==
    IF TSParses(e.ts) THEN e.ts.unix ELSE ZeroTime

ValidateGeneration(g) ==
    IF g.v # ContractVersion THEN "v must be 0"
    ELSE IF IsBlank(g.plan_id) THEN "plan_id is required"
    ELSE IF IsBlank(g.action_id) THEN "action_id is required"
    ELSE IF IsBlank(g.tenant_id) THEN "tenant_id is required"
    ELSE NoError

NewPlanID(tenantID, eventID) ==
    "plan_" \o tenantID \o ":" \o eventID

\* Every call site passes index 0.
NewActionID(planID, actionType) ==
    "act_" \o planID \o ":" \o actionType \o ":0"

DoNothingPlan(tenantID, roomID, eventID, reasonCode) ==
    [ v |-> ContractVersion,
      plan_id |-> NewPlanID(tenantID, eventID),
      tenant_id |-> tenantID,
      room_id |-> roomID,
      actions |-> << [ type |-> ActionDoNothing,
                       action_id |-> NewActionID(NewPlanID(tenantID, eventID), ActionDoNothing),
                       target |-> Nil,
                       payload |-> [reason_code |-> reasonCode] ] >>,
      policy_decisions |-> << >> ]

\* The zero ResponsePlan returned beside an error.
NoPlan ==
    [ v |-> 0, plan_id |-> "", tenant_id |-> "", room_id |-> "",
      actions |-> << >>, policy_decisions |-> << >> ]

(* ------------------------------ store ---------------------------------- *)

\* m[k] = v on a Go map modelled as a function with a finite domain.
MapPut(m, k, v) ==
    [x \in (DOMAIN m) \cup {k} |-> IF x = k THEN v ELSE m[x]]

\* delete(m, k)
MapDelete(m, k) ==
    [x \in (DOMAIN m) \ {k} |-> m[x]]

EmptyMap == [x \in {} |-> 0]

NewMemoryStore ==
    [ idempotency |-> EmptyMap,
      rooms |-> EmptyMap,
      pending |-> EmptyMap,
      tenantRate |-> EmptyMap ]

eventKey(tenantID, eventID) == tenantID \o ":" \o eventID

roomKey(tenantID, roomID) == tenantID \o ":" \o roomID

pendingKey(tenantID, actionID) == tenantID \o ":" \o actionID

\* &RoomState{}
ZeroRoomState ==
    [ Generating |-> FALSE, PendingQueueSize |-> 0, LastSendAt |-> ZeroTime ]

\* The ok result of GetIdempotency.
HasIdempotency(st, tenantID, eventID) ==
    eventKey(tenantID, eventID) \in DOMAIN st.idempotency

\* The plan result of GetIdempotency.
GetIdempotency(st, tenantID, eventID) ==
    IF HasIdempotency(st, tenantID, eventID)
    THEN st.idempotency[eventKey(tenantID, eventID)]
    ELSE NoPlan

PutIdempotency(st, tenantID, eventID, plan) ==
    [st EXCEPT !.idempotency = MapPut(@, eventKey(tenantID, eventID), plan)]

\* The room a key denotes once it has been looked up (created when absent).
RoomAt(st, rKey) ==
    IF rKey \in DOMAIN st.rooms THEN st.rooms[rKey] ELSE ZeroRoomState

\* The value GetRoomState returns.
GetRoomState(st, tenantID, roomID) ==
    RoomAt(st, roomKey(tenantID, roomID))

\* The store GetRoomState leaves: the room exists afterwards.
GetRoomStateStore(st, tenantID, roomID) ==
    [st EXCEPT !.rooms = MapPut(@, roomKey(tenantID, roomID),
                                RoomAt(st, roomKey(tenantID, roomID)))]

PutPendingWithoutLock(st, p) ==
    [st EXCEPT !.pending = MapPut(@, pendingKey(p.TenantID, p.ActionID), p)]

PutPendingGeneration(st, p) ==
    LET rKey == roomKey(p.TenantID, p.RoomID)
        room == RoomAt(st, rKey)
    IN  [st EXCEPT
           !.rooms = MapPut(@, rKey,
                            [room EXCEPT !.Generating = TRUE,
                                         !.PendingQueueSize = @ + 1]),
           !.pending = MapPut(@, pendingKey(p.TenantID, p.ActionID), p)]

\* The ok result of ConsumePendingGeneration.
HasPending(st, tenantID, actionID) ==
    pendingKey(tenantID, actionID) \in DOMAIN st.pending

\* A store that deletes the pending record and forgets the room.
ConsumeForgetsRoom(st, tenantID, actionID, at) ==
    IF pendingKey(tenantID, actionID) \in DOMAIN st.pending
    THEN [st EXCEPT !.pending = MapDelete(@, pendingKey(tenantID, actionID))]
    ELSE st

\* A store that takes the record and the queue slot but keeps the lock.
ConsumeKeepsGenerating(st, tenantID, actionID, at) ==
    IF pendingKey(tenantID, actionID) \notin DOMAIN st.pending THEN st
    ELSE
      LET key == pendingKey(tenantID, actionID)
          rKey == roomKey(tenantID, st.pending[key].RoomID)
          room == RoomAt(st, rKey)
      IN  [st EXCEPT
             !.pending = MapDelete(@, key),
             !.rooms = MapPut(@, rKey,
                              [ Generating |-> room.Generating,
                                PendingQueueSize |->
                                    IF room.PendingQueueSize > 0
                                    THEN room.PendingQueueSize - 1
                                    ELSE room.PendingQueueSize,
                                LastSendAt |-> at ])]

\* The store ConsumePendingGeneration leaves.
ConsumePendingGeneration(st, tenantID, actionID, at) ==
    IF ~HasPending(st, tenantID, actionID) THEN st
    ELSE
      LET key == pendingKey(tenantID, actionID)
          p == st.pending[key]
          rKey == roomKey(tenantID, p.RoomID)
          room == RoomAt(st, rKey)
          size == IF room.PendingQueueSize > 0
                  THEN room.PendingQueueSize - 1
                  ELSE room.PendingQueueSize
      IN  [st EXCEPT
             !.pending = MapDelete(@, key),
             !.rooms = MapPut(@, rKey,
                              [ Generating |-> IF size = 0 THEN FALSE ELSE room.Generating,
                                PendingQueueSize |-> size,
                                LastSendAt |-> at ])]

TenantRateCount(st, tenantID, minuteBucket) ==
    IF tenantID \notin DOMAIN st.tenantRate THEN 0
    ELSE IF minuteBucket \notin DOMAIN st.tenantRate[tenantID] THEN 0
    ELSE st.tenantRate[tenantID][minuteBucket]

IncrementEvictsInclusive(st, tenantID, minuteBucket) ==
    LET byMin == IF tenantID \in DOMAIN st.tenantRate
                 THEN st.tenantRate[tenantID] ELSE EmptyMap
        count == IF minuteBucket \in DOMAIN byMin THEN byMin[minuteBucket] ELSE 0
        bumped == MapPut(byMin, minuteBucket, count + 1)
        kept == {b \in DOMAIN bumped : ~(b <= minuteBucket - RateKeepBuckets)}
    IN  [st EXCEPT !.tenantRate =
           MapPut(@, tenantID, [b \in kept |-> bumped[b]])]

IncrementTenantRate(st, tenantID, minuteBucket) ==
    LET byMin == IF tenantID \in DOMAIN st.tenantRate
                 THEN st.tenantRate[tenantID] ELSE EmptyMap
        count == IF minuteBucket \in DOMAIN byMin THEN byMin[minuteBucket] ELSE 0
        bumped == MapPut(byMin, minuteBucket, count + 1)
        kept == {b \in DOMAIN bumped : ~(b < minuteBucket - RateKeepBuckets)}
    IN  [st EXCEPT !.tenantRate =
           MapPut(@, tenantID, [b \in kept |-> bumped[b]])]

(* ------------------------------- gate ---------------------------------- *)

GateAllow == [Allowed |-> TRUE, ReasonCode |-> ""]

GateDeny(reason) == [Allowed |-> FALSE, ReasonCode |-> reason]

InCooldownInclusive(gcfg, room, eventTS) ==
    /\ gcfg.CooldownMS > 0
    /\ ~IsZero(room.LastSendAt)
    /\ eventTS * MillisPerSecond <= room.LastSendAt * MillisPerSecond + gcfg.CooldownMS

\* eventTS.Before(room.LastSendAt.Add(CooldownMS * time.Millisecond))
InCooldown(gcfg, room, eventTS) ==
    /\ gcfg.CooldownMS > 0
    /\ ~IsZero(room.LastSendAt)
    /\ eventTS * MillisPerSecond < room.LastSendAt * MillisPerSecond + gcfg.CooldownMS

\* A gate that looks at the queue before the lock.
EvaluateQueueFirst(gcfg, room, eventTS, tenantCount) ==
    IF gcfg.MaxQueue > 0 /\ room.PendingQueueSize >= gcfg.MaxQueue
    THEN GateDeny("gate_backpressure")
    ELSE IF room.Generating THEN GateDeny("gate_generating_lock")
    ELSE IF InCooldown(gcfg, room, eventTS) THEN GateDeny("gate_cooldown")
    ELSE IF gcfg.TenantRateLimitPerMin > 0 /\ tenantCount >= gcfg.TenantRateLimitPerMin
         THEN GateDeny("gate_tenant_rate_limit")
    ELSE GateAllow

Evaluate(gcfg, room, eventTS, tenantCount) ==
    IF room.Generating THEN GateDeny("gate_generating_lock")
    ELSE IF InCooldown(gcfg, room, eventTS) THEN GateDeny("gate_cooldown")
    ELSE IF gcfg.MaxQueue > 0 /\ room.PendingQueueSize >= gcfg.MaxQueue
         THEN GateDeny("gate_backpressure")
    ELSE IF gcfg.TenantRateLimitPerMin > 0 /\ tenantCount >= gcfg.TenantRateLimitPerMin
         THEN GateDeny("gate_tenant_rate_limit")
    ELSE GateAllow

(* ------------------------------ planner -------------------------------- *)

\* The characters of the texts the model uses.
Chars(text) ==
    CASE text = "hi" -> <<"h", "i">>
      [] text = "hi @arbiter" -> <<"h", "i", " ", "@", "a", "r", "b", "i", "t", "e", "r">>
      [] text = "hi @Arbiter" -> <<"h", "i", " ", "@", "A", "r", "b", "i", "t", "e", "r">>
      [] text = "@ARBITER" -> <<"@", "A", "R", "B", "I", "T", "E", "R">>
      [] text = "hi arbiter" -> <<"h", "i", " ", "a", "r", "b", "i", "t", "e", "r">>
      [] text = "@arbiter" -> <<"@", "a", "r", "b", "i", "t", "e", "r">>
      [] OTHER -> << >>

UpperCase == <<"A", "B", "E", "H", "I", "R", "T">>

LowerCase == <<"a", "b", "e", "h", "i", "r", "t">>

\* strings.ToLower
ToLower(chars) ==
    [ i \in 1..Len(chars) |->
        IF \E k \in 1..Len(UpperCase) : UpperCase[k] = chars[i]
        THEN LowerCase[CHOOSE k \in 1..Len(UpperCase) : UpperCase[k] = chars[i]]
        ELSE chars[i] ]

\* strings.Contains
Contains(chars, sub) ==
    \E i \in 0..(Len(chars) - Len(sub)) : SubSeq(chars, i + 1, i + Len(sub)) = sub

isMentionedCaseSensitive(text) == Contains(Chars(text), Chars("@arbiter"))

\* strings.Contains(strings.ToLower(text), "@arbiter")
isMentioned(text) == Contains(ToLower(Chars(text)), Chars("@arbiter"))

\* fnv.New64a over the event id, mod 10000 (the values FNV-1a gives these ids).
seededProbability(eventID) ==
    CASE eventID = "e1" -> 3043
      [] eventID = "e2" -> 1254
      [] eventID = "e3" -> 9465
      [] eventID = "e4" -> 7676
      [] eventID = "e5" -> 5887
      [] eventID = "x:e1" -> 325
      [] OTHER -> 0

DecidePolicyFirst(pcfg, ev) ==
    IF pcfg.ReplyPolicy = "all" THEN IntentMessage
    ELSE IF ev.reply_to # Nil /\ ~IsBlank(ev.reply_to[1]) THEN IntentReply
    ELSE IF isMentioned(ev.text) /\ pcfg.ReplyPolicy \in {"reply_only", "mention_first"}
         THEN IntentReply
    ELSE IF pcfg.ReplyPolicy \in {"mention_first", "probabilistic"}
            /\ seededProbability(ev.event_id) < pcfg.ReplyProbability
         THEN IntentMessage
    ELSE IntentIgnore

Decide(pcfg, ev) ==
    IF ev.reply_to # Nil /\ ~IsBlank(ev.reply_to[1]) THEN IntentReply
    ELSE CASE pcfg.ReplyPolicy = "all" -> IntentMessage
           [] pcfg.ReplyPolicy = "reply_only" ->
                IF isMentioned(ev.text) THEN IntentReply ELSE IntentIgnore
           [] pcfg.ReplyPolicy = "mention_first" ->
                IF isMentioned(ev.text) THEN IntentReply
                ELSE IF seededProbability(ev.event_id) < pcfg.ReplyProbability
                     THEN IntentMessage ELSE IntentIgnore
           [] pcfg.ReplyPolicy = "probabilistic" ->
                IF seededProbability(ev.event_id) < pcfg.ReplyProbability
                THEN IntentMessage ELSE IntentIgnore
           [] OTHER -> IntentIgnore

(* ---------------------------- authorization ---------------------------- *)

BuiltinAllowAll ==
    [Allow |-> TRUE, ReasonCode |-> "builtin_allow_all"]

FailureAlwaysDenies(acfg) == [Allow |-> FALSE, ReasonCode |-> "authz_error_deny"]

applyFailureMode(acfg) ==
    CASE acfg.FailMode = "allow" ->
           [Allow |-> TRUE, ReasonCode |-> "authz_error_allow"]
      [] acfg.FailMode = "fallback_builtin" ->
           [BuiltinAllowAll EXCEPT !.ReasonCode = "authz_error_fallback_builtin"]
      [] OTHER ->
           [Allow |-> FALSE, ReasonCode |-> "authz_error_deny"]

\* What the policy endpoint may answer to one request: a decoded 2xx body,
\* or a failure (transport error, non-2xx status, undecodable body).  The
\* request carries the caller's context: when that is cancelled while the
\* request is in flight, client.Do returns the context's error.
AuthzReplies ==
    { [failed |-> FALSE, cancelled |-> FALSE, decision |-> "allow", reason_code |-> "ok"],
      [failed |-> FALSE, cancelled |-> FALSE, decision |-> "deny",
       reason_code |-> "policy_deny"],
      [failed |-> TRUE, cancelled |-> FALSE, decision |-> "", reason_code |-> ""],
      [failed |-> TRUE, cancelled |-> TRUE, decision |-> "", reason_code |-> ""] }

ExternalHTTPAuthorize(acfg, reply) ==
    IF reply.failed THEN applyFailureMode(acfg)
    ELSE [ Allow |-> reply.decision = "allow",
           ReasonCode |-> IF reply.reason_code # "" THEN reply.reason_code
                          ELSE IF reply.decision = "allow" THEN "authz_allow"
                          ELSE "authz_deny" ]

\* NewProvider picks the provider from authz.mode.
Authorize(acfg, reply) ==
    IF acfg.Mode = "builtin" THEN BuiltinAllowAll
    ELSE ExternalHTTPAuthorize(acfg, reply)

(* ------------------------------- audit --------------------------------- *)

\* TS: s.nowFn().Format(time.RFC3339Nano).  The program never reads the
\* field back; the model records that it holds the wall clock of the
\* append, not which instant that was.
WallClockTS == "nowFn"

\* audit.Record as the service fills it; JSONLLogger.Append writes it as one line.
Record(plan, tenantID, correlationID, action, result, reasonCode, ts) ==
    [ audit_id |-> NewActionID(plan.plan_id, "audit"),
      tenant_id |-> tenantID,
      correlation_id |-> correlationID,
      action |-> action,
      result |-> result,
      reason_code |-> reasonCode,
      ts |-> ts,
      plan_id |-> plan.plan_id ]

JSONLOverwrites(log, record, ok) ==
    IF ok THEN <<record>> ELSE log

\* JSONLLogger.Append: one line after all earlier ones, or a write error
\* that leaves the file as it was.
JSONLAppend(log, record, ok) ==
    IF ok THEN Append(log, record) ELSE log

(* ----------------------- pipeline: local computation ------------------- *)

\* eventTime := ev.ParsedTS(); if eventTime.IsZero() { eventTime = s.nowFn() }
EventTime(ev, nowv) ==
    IF IsZero(ParsedTS(ev)) THEN nowv ELSE ParsedTS(ev)

MinuteBucket(eventTime) == GoDiv(eventTime, SecondsPerMinute)

\* The idempotency check at the head of ProcessEvent.
IdempotencyHit(st, ev) == HasIdempotency(st, ev.tenant_id, ev.event_id)

\* A service that goes on to authorization whatever the gate said.
GateNeverDenies(gateResult) == FALSE

\* if !gateResult.Allowed
GateDenied(gateResult) == ~gateResult.Allowed

\* A service that goes on to the planner whatever the provider said.
AuthzNeverDenies(dec) == FALSE

\* if !authzDecision.Allow
AuthzDenied(dec) == ~dec.Allow

RequestGenerationPlan(ev, intent, dec) ==
    [ v |-> ContractVersion,
      plan_id |-> NewPlanID(ev.tenant_id, ev.event_id),
      tenant_id |-> ev.tenant_id,
      room_id |-> ev.room_id,
      actions |-> << [ type |-> ActionRequestGeneration,
                       action_id |-> NewActionID(NewPlanID(ev.tenant_id, ev.event_id),
                                                 ActionRequestGeneration),
                       target |-> [room_id |-> ev.room_id],
                       payload |-> [ intent |-> intent,
                                     event_id |-> ev.event_id,
                                     text |-> ev.text ] ] >>,
      policy_decisions |->
        << [Stage |-> "gate", Result |-> "allow", ReasonCode |-> ""],
           [Stage |-> "authz", Result |-> "allow", ReasonCode |-> dec.ReasonCode],
           [Stage |-> "planner", Result |-> "allow", ReasonCode |-> intent] >> ]

\* The switch on the planner's intent.
PlanFor(ev, intent, dec) ==
    CASE intent = IntentIgnore ->
           DoNothingPlan(ev.tenant_id, ev.room_id, ev.event_id, "planner_ignore")
      [] intent \in {IntentReply, IntentMessage} ->
           RequestGenerationPlan(ev, intent, dec)
      [] OTHER ->
           DoNothingPlan(ev.tenant_id, ev.room_id, ev.event_id, "planner_unknown")

\* The record handed to PutPendingGeneration.
PendingFor(ev, plan, intent) ==
    [ TenantID |-> ev.tenant_id,
      RoomID |-> ev.room_id,
      PlanID |-> plan.plan_id,
      ActionID |-> plan.actions[1].action_id,
      Kind |-> intent,
      ReplyTo |-> ev.reply_to ]

EmitWithoutPending(st, ev, intent, dec) == st

\* The store after the plan-emission stage.
EmitPlanStore(st, ev, intent, dec) ==
    IF intent \in {IntentReply, IntentMessage}
    THEN PutPendingGeneration(st, PendingFor(ev, PlanFor(ev, intent, dec), intent))
    ELSE st

GenerationAlwaysReply(pending) == ActionSendReply

\* actionType in ProcessGeneration
GenerationActionType(pending) ==
    IF pending.Kind = IntentReply \/ (pending.ReplyTo # Nil /\ pending.ReplyTo[1] # "")
    THEN ActionSendReply ELSE ActionSendMessage

GenerationTarget(pending) ==
    IF GenerationActionType(pending) = ActionSendReply /\ pending.ReplyTo # Nil
    THEN [room_id |-> pending.RoomID, reply_to |-> pending.ReplyTo[1]]
    ELSE [room_id |-> pending.RoomID]

GenerationPlan(pending, result) ==
    [ v |-> ContractVersion,
      plan_id |-> NewPlanID(result.tenant_id, result.action_id),
      tenant_id |-> result.tenant_id,
      room_id |-> pending.RoomID,
      actions |-> << [ type |-> GenerationActionType(pending),
                       action_id |-> NewActionID(NewPlanID(result.tenant_id, result.action_id),
                                                 GenerationActionType(pending)),
                       target |-> GenerationTarget(pending),
                       payload |-> [text |-> result.text, plan_id |-> result.plan_id] ] >>,
      policy_decisions |-> << >> ]

UnknownGenerationPlan(result) ==
    DoNothingPlan(result.tenant_id, "", result.action_id, "generation_unknown_action")

(* ------------------------------ inputs --------------------------------- *)

\* config.Config values the service may be built with (config.Validate
\* accepts each): the defaults (mention_first, cooldown 3000 ms, max_queue
\* 10, fail_mode deny) with external authorization and a tenant rate limit.
Configs ==
    { [ Gate |-> [CooldownMS |-> 3000, MaxQueue |-> 10, TenantRateLimitPerMin |-> 2],
        Planner |-> [ReplyPolicy |-> "mention_first", ReplyProbability |-> 0],
        Authz |-> [Mode |-> "external_http", FailMode |-> "deny"] ] }

\* Values s.nowFn() may return.
WallClock == {1, 70}

\* "ts" strings: 0001-01-01T00:00:00Z, 1970-01-01T00:00:05Z, and one that
\* is not RFC3339.
TSZero == [ok |-> TRUE, unix |-> ZeroTime]
TSFive == [ok |-> TRUE, unix |-> 5]
TSBad == [ok |-> FALSE, unix |-> 0]

BaseEvent(eventID, text, ts) ==
    [ v |-> ContractVersion, event_id |-> eventID, tenant_id |-> "t1",
      source |-> "slack", room_id |-> "r1",
      actor_type |-> "human", actor_id |-> "u1",
      content_type |-> "text", text |-> text, reply_to |-> Nil, ts |-> ts ]

\* e1 mentioning the bot, e1 again with another payload (no mention, and
\* the zero timestamp), e2 mentioning the bot.
ValidEvents ==
    { BaseEvent("e1", "hi @arbiter", TSFive),
      BaseEvent("e1", "hi", TSZero),
      BaseEvent("e2", "hi @arbiter", TSFive) }

InvalidEvents ==
    { BaseEvent("e2", "hi", TSBad) }

Events == ValidEvents \cup InvalidEvents

BaseGeneration(planID, actionID) ==
    [ v |-> ContractVersion, plan_id |-> planID, action_id |-> actionID,
      tenant_id |-> "t1", text |-> "generated" ]

\* Generation results: for the request_generation action event e1 can be
\* answered with (sent before the action is issued, or twice, it names an
\* unknown action), and one that fails validation.
GenerationResults ==
    { BaseGeneration(NewPlanID("t1", "e1"),
                     NewActionID(NewPlanID("t1", "e1"), ActionRequestGeneration)),
      BaseGeneration("", "act_x") }

\* Inputs of the service driven one call at a time: the configurations
\* differ in reply policy, authorization mode and fail_mode; the events in
\* id, text, timestamp and reply_to.
MaxUnitCalls == 3

UnitConfig(policy, mode, failMode) ==
    [ Gate |-> [CooldownMS |-> 3000, MaxQueue |-> 10, TenantRateLimitPerMin |-> 2],
      Planner |-> [ReplyPolicy |-> policy, ReplyProbability |-> 0],
      Authz |-> [Mode |-> mode, FailMode |-> failMode] ]

UnitConfigs ==
    { UnitConfig("mention_first", "external_http", "deny"),
      UnitConfig("all", "external_http", "allow"),
      UnitConfig("all", "external_http", "fallback_builtin"),
      UnitConfig("mention_first", "builtin", "deny") }

TSSix == [ok |-> TRUE, unix |-> 6]

UnitEvents ==
    { BaseEvent("e1", "hi @arbiter", TSFive),
      BaseEvent("e2", "hi @arbiter", TSSix),
      [BaseEvent("e3", "hi", TSFive) EXCEPT !.reply_to = <<"m1">>],
      [BaseEvent("e4", "hi", TSFive) EXCEPT !.reply_to = <<"">>],
      [BaseEvent("e5", "hi", TSFive) EXCEPT !.reply_to = <<" ">>] }

\* The generation result a worker sends for the request_generation action
\* of an event.
GenerationFor(ev) ==
    BaseGeneration(NewPlanID(ev.tenant_id, ev.event_id),
                   NewActionID(NewPlanID(ev.tenant_id, ev.event_id),
                               ActionRequestGeneration))

UnitGenerations == { GenerationFor(ev) : ev \in UnitEvents }

(* ------------------------------- state --------------------------------- *)

VARIABLES
    cfg,            \* Service.cfg, fixed at NewService
    store,          \* the MemoryStore
    audit,          \* the lines of the audit file, in order
    authzCalls,     \* Authorize invocations so far
    proc,           \* per goroutine: the handler call in flight and its locals
    responses,      \* what the handlers have returned, in order of return
    calls,          \* handler calls started
    sinkOk,         \* the audit file still accepts writes
    twin,           \* two services fed the same requests (TwinSpec only)
    unit,           \* a service driven one call at a time (UnitSpec only)
    aux             \* the component exercised on its own (the other specifications)

vars == <<cfg, store, audit, authzCalls, proc, responses, calls, sinkOk, twin, unit, aux>>

\* No call made yet.
NoCall == [op |-> "", req |-> Nil]

\* A service just built with configuration c (NewService over a new store).
NewUnit(c) ==
    [ cfg |-> c, store |-> NewMemoryStore, authzCalls |-> 0, failStreak |-> 0,
      n |-> 0, prev |-> NoCall, last |-> NoCall ]

IdleProc ==
    [ pc |-> "idle", op |-> "", req |-> Nil, eventTime |-> ZeroTime,
      room |-> ZeroRoomState, dec |-> BuiltinAllowAll, plan |-> NoPlan,
      stage |-> "", reason |-> "", replay |-> FALSE,
      gated |-> FALSE, gate |-> GateAllow,
      authzCalled |-> FALSE, planned |-> FALSE ]

InitCore(configs) ==
    /\ cfg \in configs
    /\ store = NewMemoryStore
    /\ audit = << >>
    /\ authzCalls = 0
    /\ proc = [p \in Procs |-> IdleProc]
    /\ responses = << >>
    /\ calls = 0
    /\ sinkOk = TRUE
    /\ twin = [a |-> NewMemoryStore, b |-> NewMemoryStore,
               plansA |-> << >>, plansB |-> << >>]
    /\ unit = NewUnit(cfg)

InitFrom(configs) ==
    /\ InitCore(configs)
    /\ aux = Nil

Init == InitFrom(Configs)

\* What a handler returns, with the path the call took.
Response(c, plan, err, auditOk) ==
    [ op |-> c.op, req |-> c.req, plan |-> plan, err |-> err,
      replay |-> c.replay, gated |-> c.gated, gate |-> c.gate,
      authzCalled |-> c.authzCalled,
      dec |-> c.dec, planned |-> c.planned, auditOk |-> auditOk ]

(* --------------------------- ProcessEvent ------------------------------ *)

\* Goroutines are interchangeable: a new request is served by the first
\* free one.
FreeProc(p) ==
    /\ proc[p].pc = "idle"
    /\ \A q \in Procs : proc[q].pc = "idle" => ~(q < p)

\* Validation, then the idempotency check (GetIdempotency).  An invalid
\* event is answered with the error at once; a hit goes to the replay audit.
PE_Begin(p, ev) ==
    /\ FreeProc(p)
    /\ calls' = calls + 1
    /\ LET c == [IdleProc EXCEPT !.op = "event", !.req = ev]
       IN  IF Validate(ev) # NoError
           THEN /\ responses' = Append(responses, Response(c, NoPlan, Validate(ev), TRUE))
                /\ proc' = proc
           ELSE IF IdempotencyHit(store, ev)
           THEN /\ proc' = [proc EXCEPT ![p] =
                      [c EXCEPT !.pc = "audit", !.stage = "replay", !.replay = TRUE,
                                !.plan = GetIdempotency(store, ev.tenant_id, ev.event_id)]]
                /\ responses' = responses
           ELSE /\ proc' = [proc EXCEPT ![p] = [c EXCEPT !.pc = "load_room"]]
                /\ responses' = responses
    /\ UNCHANGED <<aux, unit, twin, cfg, store, audit, authzCalls, sinkOk>>

\* eventTime (the wall clock when the parsed ts is the zero time) and
\* GetRoomState, which creates the room when absent.
PE_LoadRoom(p) ==
    /\ proc[p].pc = "load_room"
    /\ \E nowv \in WallClock :
         LET c == proc[p]
         IN  proc' = [proc EXCEPT ![p] =
                        [c EXCEPT !.pc = "gate",
                                  !.eventTime = EventTime(c.req, nowv),
                                  !.room = GetRoomState(store, c.req.tenant_id,
                                                        c.req.room_id)]]
    /\ store' = GetRoomStateStore(store, proc[p].req.tenant_id, proc[p].req.room_id)
    /\ UNCHANGED <<aux, unit, twin, cfg, audit, authzCalls, responses, calls, sinkOk>>

\* TenantRateCount and the gate, on the room snapshot taken before.
PE_Gate(p) ==
    /\ proc[p].pc = "gate"
    /\ LET c == proc[p]
           ev == c.req
           tenantCount == TenantRateCount(store, ev.tenant_id, MinuteBucket(c.eventTime))
           gateResult == Evaluate(cfg.Gate, c.room, c.eventTime, tenantCount)
       IN  proc' = [proc EXCEPT ![p] =
             IF GateDenied(gateResult)
             THEN [c EXCEPT !.pc = "put", !.stage = "gate",
                            !.gated = TRUE, !.gate = gateResult,
                            !.reason = gateResult.ReasonCode,
                            !.plan = DoNothingPlan(ev.tenant_id, ev.room_id, ev.event_id,
                                                   gateResult.ReasonCode)]
             ELSE [c EXCEPT !.pc = "authz", !.gated = TRUE, !.gate = gateResult]]
    /\ UNCHANGED <<aux, unit, twin, cfg, store, audit, authzCalls, responses, calls, sinkOk>>

\* s.authz.Authorize(ctx, ev): the provider's decision for the reply the
\* policy endpoint gives.
PE_Authorize(p) ==
    /\ proc[p].pc = "authz"
    /\ authzCalls' = authzCalls + 1
    /\ \E reply \in AuthzReplies :
         LET c == proc[p]
             ev == c.req
             dec == Authorize(cfg.Authz, reply)
         IN  proc' = [proc EXCEPT ![p] =
               IF AuthzDenied(dec)
               THEN [c EXCEPT !.pc = "put", !.stage = "authz", !.authzCalled = TRUE,
                              !.dec = dec, !.reason = dec.ReasonCode,
                              !.plan = DoNothingPlan(ev.tenant_id, ev.room_id, ev.event_id,
                                                     dec.ReasonCode)]
               ELSE [c EXCEPT !.pc = "plan", !.authzCalled = TRUE, !.dec = dec]]
    /\ UNCHANGED <<aux, unit, twin, cfg, store, audit, responses, calls, sinkOk>>

\* The planner and plan emission; PutPendingGeneration for REPLY / MESSAGE.
PE_Plan(p) ==
    /\ proc[p].pc = "plan"
    /\ LET c == proc[p]
           intent == Decide(cfg.Planner, c.req)
       IN  /\ store' = EmitPlanStore(store, c.req, intent, c.dec)
           /\ proc' = [proc EXCEPT ![p] =
                 [c EXCEPT !.pc = "increment", !.stage = "ok", !.planned = TRUE,
                           !.plan = PlanFor(c.req, intent, c.dec),
                           !.reason = PlanFor(c.req, intent, c.dec).actions[1].type]]
    /\ UNCHANGED <<aux, unit, twin, cfg, audit, authzCalls, responses, calls, sinkOk>>

PE_IncrementTenantRate(p) ==
    /\ proc[p].pc = "increment"
    /\ store' = IncrementTenantRate(store, proc[p].req.tenant_id,
                                    MinuteBucket(proc[p].eventTime))
    /\ proc' = [proc EXCEPT ![p].pc = "put"]
    /\ UNCHANGED <<aux, unit, twin, cfg, audit, authzCalls, responses, calls, sinkOk>>

\* s.store.PutIdempotency(ev.TenantID, ev.EventID, plan), at each of its
\* three call sites (gate deny, authz deny, persist).
PE_PutIdempotency(p) ==
    /\ proc[p].pc = "put"
    /\ store' = PutIdempotency(store, proc[p].req.tenant_id, proc[p].req.event_id,
                               proc[p].plan)
    /\ proc' = [proc EXCEPT ![p].pc = "audit"]
    /\ UNCHANGED <<aux, unit, twin, cfg, audit, authzCalls, responses, calls, sinkOk>>

\* A ProcessEvent call arrives.
PE_Start(p, ev) ==
    /\ calls < MaxCalls
    /\ PE_Begin(p, ev)

(* -------------------------- ProcessGeneration -------------------------- *)

\* Validation, then ConsumePendingGeneration at the wall-clock instant.
PG_Begin(p, g) ==
    /\ FreeProc(p)
    /\ calls' = calls + 1
    /\ LET c == [IdleProc EXCEPT !.op = "generation", !.req = g]
       IN  IF ValidateGeneration(g) # NoError
           THEN /\ responses' = Append(responses,
                                       Response(c, NoPlan, ValidateGeneration(g), TRUE))
                /\ UNCHANGED <<proc, store>>
           ELSE /\ responses' = responses
                /\ \E nowv \in WallClock :
                     store' = ConsumePendingGeneration(store, g.tenant_id, g.action_id, nowv)
                /\ proc' = [proc EXCEPT ![p] =
                     IF HasPending(store, g.tenant_id, g.action_id)
                     THEN LET pending == store.pending[pendingKey(g.tenant_id, g.action_id)]
                          IN  [c EXCEPT !.pc = "audit", !.stage = "gen_ok",
                                        !.plan = GenerationPlan(pending, g),
                                        !.reason = GenerationActionType(pending)]
                     ELSE [c EXCEPT !.pc = "audit", !.stage = "gen_unknown",
                                    !.plan = UnknownGenerationPlan(g),
                                    !.reason = "generation_unknown_action"]]
    /\ UNCHANGED <<aux, unit, twin, cfg, audit, authzCalls, sinkOk>>

\* A ProcessGeneration call arrives.
PG_Start(p, g) ==
    /\ calls < MaxCalls
    /\ PG_Begin(p, g)

\* Redelivery: the same event, and the generation result for its action,
\* each sent more than once.
MaxDupCalls == 4

DupEvent == BaseEvent("e1", "hi @arbiter", TSFive)

PE_Redeliver(p) ==
    /\ calls < MaxDupCalls
    /\ PE_Begin(p, DupEvent)

PG_Redeliver(p) ==
    /\ calls < MaxDupCalls
    /\ PG_Begin(p, GenerationFor(DupEvent))

(* ------------------------ audit append and return ---------------------- *)

AuditRecordReplayAsOk(c, ts) ==
    Record(c.plan, c.req.tenant_id,
           IF c.op = "event" THEN c.req.event_id ELSE c.req.action_id,
           "process_event", "ok", c.reason, ts)

\* The audit.Record each return site of the two handlers builds.
AuditRecordFor(c, ts) ==
    CASE c.stage = "replay" ->
           Record(c.plan, c.req.tenant_id, c.req.event_id,
                  "process_event", "idempotency_hit", "idempotency_hit", ts)
      [] c.stage = "gate" ->
           Record(c.plan, c.req.tenant_id, c.req.event_id, "gate", "deny", c.reason, ts)
      [] c.stage = "authz" ->
           Record(c.plan, c.req.tenant_id, c.req.event_id, "authz", "deny", c.reason, ts)
      [] c.stage = "ok" ->
           Record(c.plan, c.req.tenant_id, c.req.event_id, "process_event", "ok", c.reason, ts)
      [] c.stage = "gen_unknown" ->
           Record(c.plan, c.req.tenant_id, c.req.action_id,
                  "generation_result", "no_pending_action", c.reason, ts)
      [] OTHER ->
           Record(c.plan, c.req.tenant_id, c.req.action_id,
                  "generation_result", "ok", c.reason, ts)

\* What the handler returns after `_ = s.audit.Append(...)`: the error of
\* the append is discarded.
ReturnedError(auditOk) == NoError

ReturnedPlan(plan, auditOk) == plan

\* `_ = s.audit.Append(...)` followed by `return plan, nil`.  The write
\* succeeds, or fails from here on (the file system fails, or the logger
\* was closed at shutdown while the handler was still running).
AppendAndReturn(p) ==
    /\ proc[p].pc = "audit"
    /\ \E ok \in BOOLEAN :
         /\ ok => sinkOk
         /\ audit' = JSONLAppend(audit, AuditRecordFor(proc[p], WallClockTS), ok)
         /\ sinkOk' = ok
         /\ responses' = Append(responses,
                                Response(proc[p], ReturnedPlan(proc[p].plan, ok),
                                         ReturnedError(ok), ok))
    /\ proc' = [proc EXCEPT ![p] = IdleProc]
    /\ UNCHANGED <<aux, unit, twin, cfg, store, authzCalls, calls>>

(* ------------------- the handlers as single calls ---------------------- *)

\* ProcessEvent run alone (no other request in between), as a function of
\* the configuration, the stored state, the event, the policy endpoint's
\* reply and the value of s.nowFn(): the plan and error it returns and the
\* store it leaves.
ProcessEvent(c, st, ev, reply, nowv) ==
    IF Validate(ev) # NoError
    THEN [plan |-> NoPlan, err |-> Validate(ev), store |-> st, authz |-> 0]
    ELSE IF IdempotencyHit(st, ev)
    THEN [plan |-> GetIdempotency(st, ev.tenant_id, ev.event_id),
          err |-> NoError, store |-> st, authz |-> 0]
    ELSE
      LET eventTime == EventTime(ev, nowv)
          room == GetRoomState(st, ev.tenant_id, ev.room_id)
          st1 == GetRoomStateStore(st, ev.tenant_id, ev.room_id)
          minuteBucket == MinuteBucket(eventTime)
          tenantCount == TenantRateCount(st1, ev.tenant_id, minuteBucket)
          gateResult == Evaluate(c.Gate, room, eventTime, tenantCount)
          dec == Authorize(c.Authz, reply)
          intent == Decide(c.Planner, ev)
          denied(reason) == DoNothingPlan(ev.tenant_id, ev.room_id, ev.event_id, reason)
      IN  IF GateDenied(gateResult)
          THEN [plan |-> denied(gateResult.ReasonCode), err |-> NoError, authz |-> 0,
                store |-> PutIdempotency(st1, ev.tenant_id, ev.event_id,
                                         denied(gateResult.ReasonCode))]
          ELSE IF AuthzDenied(dec)
          THEN [plan |-> denied(dec.ReasonCode), err |-> NoError, authz |-> 1,
                store |-> PutIdempotency(st1, ev.tenant_id, ev.event_id,
                                         denied(dec.ReasonCode))]
          ELSE [plan |-> PlanFor(ev, intent, dec), err |-> NoError, authz |-> 1,
                store |-> PutIdempotency(
                            IncrementTenantRate(EmitPlanStore(st1, ev, intent, dec),
                                                ev.tenant_id, minuteBucket),
                            ev.tenant_id, ev.event_id, PlanFor(ev, intent, dec))]

\* ProcessGeneration run alone, likewise.
ProcessGeneration(st, g, nowv) ==
    IF ValidateGeneration(g) # NoError
    THEN [plan |-> NoPlan, err |-> ValidateGeneration(g), store |-> st]
    ELSE IF HasPending(st, g.tenant_id, g.action_id)
    THEN [plan |-> GenerationPlan(st.pending[pendingKey(g.tenant_id, g.action_id)], g),
          err |-> NoError,
          store |-> ConsumePendingGeneration(st, g.tenant_id, g.action_id, nowv)]
    ELSE [plan |-> UnknownGenerationPlan(g), err |-> NoError,
          store |-> ConsumePendingGeneration(st, g.tenant_id, g.action_id, nowv)]

\* The streak of failed calls to the policy endpoint after one more call.
FailStreak(acfg, streak, reply) ==
    IF acfg.Mode = "builtin" THEN streak
    ELSE IF reply.failed THEN streak + 1 ELSE 0

\* One ProcessEvent call on the service, nothing else running.
UnitProcessEvent(ev, reply, nowv) ==
    /\ unit.n < MaxUnitCalls
    /\ LET r == ProcessEvent(unit.cfg, unit.store, ev, reply, nowv)
       IN  unit' = [unit EXCEPT
                      !.store = r.store,
                      !.authzCalls = @ + r.authz,
                      !.failStreak = IF r.authz = 1
                                     THEN FailStreak(unit.cfg.Authz, @, reply) ELSE @,
                      !.n = @ + 1,
                      !.prev = unit.last,
                      !.last = [op |-> "event", req |-> ev, plan |-> r.plan, err |-> r.err,
                                pre |-> unit.store, authz |-> r.authz,
                                cancelled |-> r.authz = 1 /\ reply.cancelled,
                                allowed |-> r.authz = 1
                                            /\ Authorize(unit.cfg.Authz, reply).Allow]]
    /\ UNCHANGED <<aux, twin, cfg, store, audit, authzCalls, proc, responses, calls, sinkOk>>

\* One ProcessGeneration call on the service.
UnitProcessGeneration(g, nowv) ==
    /\ unit.n < MaxUnitCalls
    /\ LET r == ProcessGeneration(unit.store, g, nowv)
       IN  unit' = [unit EXCEPT
                      !.store = r.store,
                      !.n = @ + 1,
                      !.prev = unit.last,
                      !.last = [op |-> "generation", req |-> g, plan |-> r.plan,
                                err |-> r.err, pre |-> unit.store, now |-> nowv]]
    /\ UNCHANGED <<aux, twin, cfg, store, audit, authzCalls, proc, responses, calls, sinkOk>>

\* One Authorize call on the service's provider.
UnitAuthorize(reply) ==
    /\ unit.n < MaxUnitCalls
    /\ unit' = [unit EXCEPT
                  !.authzCalls = @ + 1,
                  !.failStreak = FailStreak(unit.cfg.Authz, @, reply),
                  !.n = @ + 1,
                  !.prev = unit.last,
                  !.last = [op |-> "authorize", req |-> Nil, reply |-> reply,
                            dec |-> Authorize(unit.cfg.Authz, reply),
                            streak |-> unit.failStreak]]
    /\ UNCHANGED <<aux, twin, cfg, store, audit, authzCalls, proc, responses, calls, sinkOk>>

\* Two services built with the same configuration receive the same request
\* with the same reply of the policy endpoint; each reads its own clock.
TwinProcessEvent(ev, reply, nowA, nowB) ==
    /\ Len(twin.plansA) < MaxCalls
    /\ LET ra == ProcessEvent(cfg, twin.a, ev, reply, nowA)
           rb == ProcessEvent(cfg, twin.b, ev, reply, nowB)
       IN  twin' = [a |-> ra.store, b |-> rb.store,
                    plansA |-> Append(twin.plansA, [plan |-> ra.plan, err |-> ra.err]),
                    plansB |-> Append(twin.plansB, [plan |-> rb.plan, err |-> rb.err])]
    /\ UNCHANGED <<aux, unit, cfg, store, audit, authzCalls, proc, responses, calls, sinkOk>>

TwinProcessGeneration(g, nowA, nowB) ==
    /\ Len(twin.plansA) < MaxCalls
    /\ LET ra == ProcessGeneration(twin.a, g, nowA)
           rb == ProcessGeneration(twin.b, g, nowB)
       IN  twin' = [a |-> ra.store, b |-> rb.store,
                    plansA |-> Append(twin.plansA, [plan |-> ra.plan, err |-> ra.err]),
                    plansB |-> Append(twin.plansB, [plan |-> rb.plan, err |-> rb.err])]
    /\ UNCHANGED <<aux, unit, cfg, store, audit, authzCalls, proc, responses, calls, sinkOk>>

(* --------------------------- specifications ---------------------------- *)

Next ==
    \/ \E p \in Procs, ev \in Events : PE_Start(p, ev)
    \/ \E p \in Procs : PE_LoadRoom(p)
    \/ \E p \in Procs : PE_Gate(p)
    \/ \E p \in Procs : PE_Authorize(p)
    \/ \E p \in Procs : PE_Plan(p)
    \/ \E p \in Procs : PE_IncrementTenantRate(p)
    \/ \E p \in Procs : PE_PutIdempotency(p)
    \/ \E p \in Procs, g \in GenerationResults : PG_Start(p, g)
    \/ \E p \in Procs : AppendAndReturn(p)

Spec == Init /\ [][Next]_vars

\* Two services side by side, one request at a time.
NextTwin ==
    \/ \E ev \in Events, reply \in AuthzReplies, nowA \in WallClock, nowB \in WallClock :
         TwinProcessEvent(ev, reply, nowA, nowB)
    \/ \E g \in GenerationResults, nowA \in WallClock, nowB \in WallClock :
         TwinProcessGeneration(g, nowA, nowB)

TwinSpec == Init /\ [][NextTwin]_vars

\* The service under redelivery of one event and of its generation result.
NextDup ==
    \/ \E p \in Procs : PE_Redeliver(p)
    \/ \E p \in Procs : PE_LoadRoom(p)
    \/ \E p \in Procs : PE_Gate(p)
    \/ \E p \in Procs : PE_Authorize(p)
    \/ \E p \in Procs : PE_Plan(p)
    \/ \E p \in Procs : PE_IncrementTenantRate(p)
    \/ \E p \in Procs : PE_PutIdempotency(p)
    \/ \E p \in Procs : PG_Redeliver(p)
    \/ \E p \in Procs : AppendAndReturn(p)

DupSpec == Init /\ [][NextDup]_vars

\* One service, one call at a time, over the wider inputs.
UnitInit == InitFrom(UnitConfigs)

NextUnit ==
    \/ \E ev \in UnitEvents, reply \in AuthzReplies, nowv \in WallClock :
         UnitProcessEvent(ev, reply, nowv)
    \/ \E g \in UnitGenerations, nowv \in WallClock : UnitProcessGeneration(g, nowv)
    \/ \E reply \in AuthzReplies : UnitAuthorize(reply)

UnitSpec == UnitInit /\ [][NextUnit]_vars

(* -------------------------- the planner alone -------------------------- *)

MaxDecideCalls == 2

\* Planner configurations: the four policies and one that is none of them
\* (planner.Engine does not validate it), with reply_probability 0, 0.2 and
\* 1 in ten-thousandths, the unit seededProbability is kept in.
PlannerConfigs ==
    [ReplyPolicy : {"all", "reply_only", "mention_first", "probabilistic", "never"},
     ReplyProbability : {0, 2000, 10000}]

PlannerEvents ==
    { [BaseEvent(id, text, TSFive) EXCEPT !.reply_to = replyTo] :
        id \in {"e1", "e2"},
        text \in {"hi", "hi @arbiter", "hi @Arbiter", "hi arbiter"},
        replyTo \in {Nil, <<"">>, <<" ">>, <<"m1">>} }

NewPlanner(pcfg) == [pcfg |-> pcfg, n |-> 0, prev |-> Nil, last |-> Nil]

\* One call of Engine.Decide.
PlannerDecide(ev) ==
    /\ aux.n < MaxDecideCalls
    /\ aux' = [aux EXCEPT !.n = @ + 1, !.prev = aux.last,
                          !.last = [ev |-> ev, intent |-> Decide(aux.pcfg, ev)]]
    /\ UNCHANGED <<cfg, store, audit, authzCalls, proc, responses, calls, sinkOk, twin, unit>>

PlannerInit == InitCore(Configs) /\ aux \in { NewPlanner(pcfg) : pcfg \in PlannerConfigs }

NextPlanner == \E ev \in PlannerEvents : PlannerDecide(ev)

PlannerSpec == PlannerInit /\ [][NextPlanner]_vars

(* --------------------------- the gate alone ---------------------------- *)

\* Gate configurations config.Validate accepts (no negative value), with
\* each rule switched off (0) or on.
GateConfigs ==
    [CooldownMS : {0, 3000}, MaxQueue : {0, 2}, TenantRateLimitPerMin : {0, 2}]

\* Room states: last_send_at unset or at second 5.
GateRooms ==
    [Generating : BOOLEAN, PendingQueueSize : 0..3, LastSendAt : {ZeroTime, 5}]

\* Event times around the end of the cooldown (second 8).
GateEventTimes == {4, 7, 8, 9}

GateTenantCounts == 0..3

\* One call of Evaluator.Evaluate (the evaluator keeps no state: one call
\* per run covers every sequence of calls).
GateEvaluate(gcfg, room, eventTS, tenantCount) ==
    /\ aux = Nil
    /\ aux' = [gcfg |-> gcfg, room |-> room, eventTS |-> eventTS,
               tenantCount |-> tenantCount,
               result |-> Evaluate(gcfg, room, eventTS, tenantCount)]
    /\ UNCHANGED <<cfg, store, audit, authzCalls, proc, responses, calls, sinkOk, twin, unit>>

GateInit == InitCore(Configs) /\ aux = Nil

NextGate ==
    \E gcfg \in GateConfigs, room \in GateRooms, eventTS \in GateEventTimes,
       tenantCount \in GateTenantCounts :
        GateEvaluate(gcfg, room, eventTS, tenantCount)

GateSpec == GateInit /\ [][NextGate]_vars

(* ----------------------- the tenant-rate bucket ------------------------ *)

\* Event timestamps around the Unix epoch, two minutes either side
\* (1969-12-31T23:57:55Z .. 1970-01-01T00:02:05Z): time.Parse accepts each.
BucketTimes == -125..125

\* The buckets ProcessEvent computes for two valid events, minuteBucket :=
\* eventTime.Unix() / 60 on the event time (the computation reads nothing
\* but the event: one pair per run covers every sequence).
BucketOfEvents(evA, evB, nowv) ==
    /\ aux = Nil
    /\ Validate(evA) = NoError
    /\ Validate(evB) = NoError
    /\ aux' = [a |-> ParsedTS(evA), b |-> ParsedTS(evB),
               bucketA |-> MinuteBucket(EventTime(evA, nowv)),
               bucketB |-> MinuteBucket(EventTime(evB, nowv))]
    /\ UNCHANGED <<cfg, store, audit, authzCalls, proc, responses, calls, sinkOk, twin, unit>>

NextBucket ==
    /\ aux = Nil
    /\ \E a \in BucketTimes, b \in BucketTimes, nowv \in WallClock :
         BucketOfEvents(BaseEvent("e1", "hi", [ok |-> TRUE, unix |-> a]),
                        BaseEvent("e2", "hi", [ok |-> TRUE, unix |-> b]), nowv)

BucketSpec == InitCore(Configs) /\ aux = Nil /\ [][NextBucket]_vars

(* ------------------------ the store's rate map ------------------------- *)

MaxRateCalls == 4

RateTenants == {"t1", "t2"}

\* Minute buckets on both sides of the cleanup threshold: 6 - 5 = 1, 7 - 5 = 2.
RateBuckets == {0, 1, 6, 7}

\* One call of MemoryStore.IncrementTenantRate on a store of its own.
StoreIncrementTenantRate(tenantID, minuteBucket) ==
    /\ aux.n < MaxRateCalls
    /\ aux' = [store |-> IncrementTenantRate(aux.store, tenantID, minuteBucket),
               n |-> aux.n + 1,
               last |-> [tenant |-> tenantID, bucket |-> minuteBucket,
                         pre |-> aux.store]]
    /\ UNCHANGED <<cfg, store, audit, authzCalls, proc, responses, calls, sinkOk, twin, unit>>

NextRate ==
    \E tenantID \in RateTenants, minuteBucket \in RateBuckets :
        StoreIncrementTenantRate(tenantID, minuteBucket)

\* The store starts empty (NewMemoryStore).
RateSpec ==
    /\ InitCore(Configs)
    /\ aux = [store |-> NewMemoryStore, n |-> 0, last |-> Nil]
    /\ [][NextRate]_vars

(* --------------------- the tenant rate limit alone --------------------- *)

\* The default configuration with a tenant rate limit of one event a minute.
LimitConfigs ==
    { [ Gate |-> [CooldownMS |-> 3000, MaxQueue |-> 10, TenantRateLimitPerMin |-> 1],
        Planner |-> [ReplyPolicy |-> "mention_first", ReplyProbability |-> 0],
        Authz |-> [Mode |-> "external_http", FailMode |-> "deny"] ] }

\* Three events of tenant t1 that the planner ignores (no room lock is
\* involved): two in minute 0, one at 1970-01-01T00:06:40Z, minute 6.
LimitEvents ==
    { BaseEvent("e1", "hi", TSFive),
      BaseEvent("e2", "hi", [ok |-> TRUE, unix |-> 400]),
      BaseEvent("e3", "hi", TSFive) }

NextLimit ==
    \/ \E p \in Procs, ev \in LimitEvents : PE_Start(p, ev)
    \/ \E p \in Procs : PE_LoadRoom(p)
    \/ \E p \in Procs : PE_Gate(p)
    \/ \E p \in Procs : PE_Authorize(p)
    \/ \E p \in Procs : PE_Plan(p)
    \/ \E p \in Procs : PE_IncrementTenantRate(p)
    \/ \E p \in Procs : PE_PutIdempotency(p)
    \/ \E p \in Procs : AppendAndReturn(p)

LimitSpec == InitFrom(LimitConfigs) /\ [][NextLimit]_vars

(* ---------------------- ids that contain a colon ----------------------- *)

\* Validate only requires ids to be non-blank: a tenant_id or event_id may
\* contain ':'.  Tenant t1 with event x:e1 and tenant t1:x with event e1,
\* and an event e2 of each tenant.
AliasEvents ==
    { BaseEvent("x:e1", "hi @arbiter", TSFive),
      [BaseEvent("e1", "hi", TSFive) EXCEPT !.tenant_id = "t1:x"],
      BaseEvent("e2", "hi", TSFive),
      [BaseEvent("e2", "hi @arbiter", TSFive) EXCEPT !.tenant_id = "t1:x"] }

NextAlias ==
    \E ev \in AliasEvents, reply \in AuthzReplies, nowv \in WallClock :
        UnitProcessEvent(ev, reply, nowv)

AliasSpec ==
    InitFrom({UnitConfig("mention_first", "external_http", "deny")}) /\ [][NextAlias]_vars

(* ------------------------ a queue of one slot -------------------------- *)

\* The default configuration with gate.max_queue = 1: a room with one
\* pending generation is at the backpressure threshold.
QueueConfigs ==
    { [ Gate |-> [CooldownMS |-> 3000, MaxQueue |-> 1, TenantRateLimitPerMin |-> 2],
        Planner |-> [ReplyPolicy |-> "mention_first", ReplyProbability |-> 0],
        Authz |-> [Mode |-> "external_http", FailMode |-> "deny"] ] }

QueueSpec == InitFrom(QueueConfigs) /\ [][Next]_vars

(* ------------------ generation results and plan ids -------------------- *)

\* Two events that ask for a generation, and for each the worker's result
\* under the plan_id the plan carried and under another plan's id.
PlanIDEvents ==
    { BaseEvent("e1", "hi @arbiter", TSFive),
      BaseEvent("e2", "hi @arbiter", TSSix) }

PlanIDGenerations ==
    { GenerationFor(ev) : ev \in PlanIDEvents }
      \cup { [GenerationFor(ev) EXCEPT !.plan_id = NewPlanID("t1", "e9")] : ev \in PlanIDEvents }

NextPlanID ==
    \/ \E ev \in PlanIDEvents, reply \in AuthzReplies, nowv \in WallClock :
         UnitProcessEvent(ev, reply, nowv)
    \/ \E g \in PlanIDGenerations, nowv \in WallClock : UnitProcessGeneration(g, nowv)

PlanIDSpec ==
    InitFrom({UnitConfig("mention_first", "builtin", "deny")}) /\ [][NextPlanID]_vars

(* --------------------------- action results --------------------------- *)

MaxResultCalls == 3

\* Request bodies of POST /v0/action-results: the handler reads tenant_id,
\* correlation_id and reason_code and ignores every other member.
ActionResultBody(tenantID, actionID, reason) ==
    [tenant_id |-> tenantID, plan_id |-> "plan_t1:e1", action_id |-> actionID,
     correlation_id |-> actionID, reason_code |-> reason]

ActionResultBodies ==
    { ActionResultBody("t1", "a1", "succeeded"),
      ActionResultBody("t1", "a1", "failed"),
      ActionResultBody("t1", "a2", "succeeded"),
      ActionResultBody("", "a1", "succeeded") }

\* The audit.Record RecordActionResult builds (no plan id).
ActionResultRecord(tenantID, correlationID, reason, ts) ==
    [ audit_id |-> NewActionID(correlationID, "audit"),
      tenant_id |-> tenantID,
      correlation_id |-> correlationID,
      action |-> "action_result",
      result |-> "recorded",
      reason_code |-> reason,
      ts |-> ts,
      plan_id |-> "" ]

\* handleActionResults and Service.RecordActionResult: the two ids must be
\* present; the result is appended to the audit log and the append's error
\* is the call's error.
RecordActionResult(body) ==
    /\ calls < MaxResultCalls
    /\ calls' = calls + 1
    /\ IF body.tenant_id = "" \/ body.correlation_id = ""
       THEN /\ responses' = Append(responses,
                   [op |-> "action_result", req |-> body,
                    err |-> "tenant_id and correlation_id are required"])
            /\ UNCHANGED <<audit, sinkOk>>
       ELSE \E ok \in BOOLEAN :
            /\ ok => sinkOk
            /\ audit' = JSONLAppend(audit,
                            ActionResultRecord(body.tenant_id, body.correlation_id,
                                               body.reason_code, WallClockTS), ok)
            /\ sinkOk' = ok
            /\ responses' = Append(responses,
                   [op |-> "action_result", req |-> body,
                    err |-> IF ok THEN NoError ELSE "write audit record"])
    /\ UNCHANGED <<aux, unit, twin, cfg, store, authzCalls, proc>>

NextActionResult ==
    \E body \in ActionResultBodies : RecordActionResult(body)

ActionResultSpec == Init /\ [][NextActionResult]_vars

(* ------------------ job and approval state machines -------------------- *)

\* The service's job and approval ingest (POST /v1/job-events, POST
\* /v1/approval-events) as the state documents describe it: events are
\* idempotent by (tenant_id, event_id), and a state that is terminal is
\* immutable.
JobStatuses == {"started", "heartbeat", "completed", "failed", "cancelled"}

JobTerminal == {"completed", "failed", "cancelled"}

ApprovalStatuses == {"requested", "approved", "rejected", "expired"}

ApprovalTerminal == {"approved", "rejected", "expired"}

TerminalOf(kind) == IF kind = "job" THEN JobTerminal ELSE ApprovalTerminal

MaxLifecycleCalls == 3

\* Events for one job and one approval of tenant t1.
LifecycleEvent(kind, eventID, status) ==
    [kind |-> kind, tenant_id |-> "t1", event_id |-> eventID, entity_id |-> "x1",
     status |-> status]

JobEvents ==
    { LifecycleEvent("job", id, st) : id \in {"j1", "j2", "j3"}, st \in JobStatuses }

ApprovalEvents ==
    { LifecycleEvent("approval", id, st) : id \in {"a1", "a2", "a3"},
                                            st \in ApprovalStatuses }

entityKey(ev) == ev.kind \o ":" \o ev.tenant_id \o ":" \o ev.entity_id

lifecycleEventKey(ev) == ev.kind \o ":" \o ev.tenant_id \o ":" \o ev.event_id

OverwritesTerminal(terminal, states, ev) == FALSE

\* The state is terminal: the transition the event asks for is refused.
RefusesTransition(terminal, states, ev) ==
    /\ entityKey(ev) \in DOMAIN states
    /\ states[entityKey(ev)] \in terminal

\* Ingest of one job or approval event: a duplicate is accepted when its
\* payload is the stored one and a conflict otherwise; an event for an
\* entity in a terminal state is an invalid transition and changes nothing;
\* any other event sets the entity's status.
IngestLifecycleEvent(lc, ev) ==
    IF lifecycleEventKey(ev) \in DOMAIN lc.seen
    THEN [lc EXCEPT !.err = IF lc.seen[lifecycleEventKey(ev)] = ev THEN NoError
                             ELSE "conflict.payload_mismatch"]
    ELSE IF RefusesTransition(TerminalOf(ev.kind), lc.states, ev)
    THEN [lc EXCEPT !.err = "conflict.invalid_transition"]
    ELSE [lc EXCEPT !.err = NoError,
                    !.states = MapPut(@, entityKey(ev), ev.status),
                    !.seen = MapPut(@, lifecycleEventKey(ev), ev)]

NewLifecycle ==
    [states |-> EmptyMap, seen |-> EmptyMap, err |-> NoError, n |-> 0,
     pre |-> EmptyMap, hit |-> FALSE, req |-> Nil]

LifecycleIngest(ev) ==
    /\ aux.n < MaxLifecycleCalls
    /\ aux' = [IngestLifecycleEvent(aux, ev) EXCEPT
                 !.n = aux.n + 1, !.pre = aux.states,
                 !.hit = lifecycleEventKey(ev) \in DOMAIN aux.seen, !.req = ev]
    /\ UNCHANGED <<cfg, store, audit, authzCalls, proc, responses, calls, sinkOk, twin, unit>>

JobEvent(ev) == LifecycleIngest(ev)

ApprovalEvent(ev) == LifecycleIngest(ev)

LifecycleInit == InitCore(Configs) /\ aux = NewLifecycle

NextLifecycle ==
    \/ \E ev \in JobEvents : JobEvent(ev)
    \/ \E ev \in ApprovalEvents : ApprovalEvent(ev)

LifecycleSpec == LifecycleInit /\ [][NextLifecycle]_vars

(* ------------------------------ properties ----------------------------- *)

\* Responses of ProcessEvent calls that returned a plan.
EventResponses ==
    { i \in 1..Len(responses) : responses[i].op = "event" /\ responses[i].err = NoError }

SameEventKey(a, b) ==
    eventKey(a.tenant_id, a.event_id) = eventKey(b.tenant_id, b.event_id)

\* The call was denied: by the gate, or by the authorization provider.
DeniedByGate(r) == r.gated /\ ~r.gate.Allowed

DeniedByAuthz(r) == r.authzCalled /\ ~r.dec.Allow

DenyReason(r) == IF DeniedByGate(r) THEN r.gate.ReasonCode ELSE r.dec.ReasonCode

\* No handler call is in flight.
Quiescent == \A p \in Procs : proc[p].pc = "idle"

\* The response is the first one returned for its event.
FirstResponse(i) ==
    \A k \in EventResponses : k < i => responses[k].req # responses[i].req

\* C1: once ProcessEvent has returned a plan for an event, a later delivery
\* of the same event (here: one made when no call is in flight) is answered,
\* without error, with the plan of the first response.
C1_ReplayReturnsFirstPlan ==
    Quiescent =>
        \A i \in EventResponses : FirstResponse(i) =>
            \A reply \in AuthzReplies, nowv \in WallClock :
                LET later == ProcessEvent(cfg, store, responses[i].req, reply, nowv)
                IN  later.err = NoError /\ later.plan = responses[i].plan

\* Deliveries of the event that were not answered from a record, returned
\* or still in flight: the payloads a record of the event can stem from.
AcceptedPayloads(ev) ==
    { responses[k].req : k \in { i \in EventResponses :
                                    /\ ~responses[i].replay
                                    /\ SameEventKey(responses[i].req, ev) } }
    \cup { proc[p].req : p \in { q \in Procs :
                                    /\ proc[q].pc # "idle" /\ proc[q].op = "event"
                                    /\ ~proc[q].replay
                                    /\ SameEventKey(proc[q].req, ev) } }

\* C2: a delivery that finds an idempotency record for its (tenant, event)
\* but carries another payload than the delivery the record stems from is
\* rejected with conflict.payload_mismatch and gets no plan.
C2_PayloadMismatchRejected ==
    \A j \in 1..Len(responses) :
        ( /\ responses[j].op = "event"
          /\ responses[j].replay
          /\ responses[j].req \notin AcceptedPayloads(responses[j].req) )
            => /\ responses[j].err = "conflict.payload_mismatch"
               /\ responses[j].plan = NoPlan

\* C3: of the concurrent deliveries of one event at most one computes and
\* stores the idempotency record, and all of them return the same plan.
C3_ConcurrentDuplicatesAgree ==
    \A i \in EventResponses, j \in EventResponses :
        (i # j /\ responses[i].req = responses[j].req)
            => /\ responses[i].replay \/ responses[j].replay
               /\ responses[i].plan = responses[j].plan

\* Calls in flight on which Authorize has been invoked.
AuthorizedInFlight == { p \in Procs : proc[p].pc # "idle" /\ proc[p].authzCalled }

\* Returned calls for valid events that were no replay and passed the gate.
PassedGate ==
    { i \in EventResponses : ~responses[i].replay /\ responses[i].gated
                                /\ responses[i].gate.Allowed }

\* C4: a call the gate denied never invokes Authorize, and the number of
\* Authorize invocations is the number of valid, non-replay events that
\* passed the gate (counting a call in flight once it has reached Authorize).
C4_AuthorizeOnlyAfterGate ==
    /\ \A i \in EventResponses : DeniedByGate(responses[i]) => ~responses[i].authzCalled
    /\ \A p \in Procs : DeniedByGate(proc[p]) => ~proc[p].authzCalled
    /\ \A i \in 1..Len(responses) :
          responses[i].authzCalled => i \in PassedGate
    /\ \A p \in Procs : proc[p].pc \in {"plan", "increment"} => proc[p].authzCalled
    /\ authzCalls = Cardinality({ i \in PassedGate : responses[i].authzCalled })
                      + Cardinality(AuthorizedInFlight)
    /\ (\A p \in Procs : proc[p].pc = "idle") => authzCalls = Cardinality(PassedGate)

\* One event denied by the gate and another that passed it have both been
\* answered.
C4_Witness ==
    /\ \A p \in Procs : proc[p].pc = "idle"
    /\ \E i \in EventResponses : DeniedByGate(responses[i])
    /\ authzCalls > 0
    /\ authzCalls = Cardinality(PassedGate)

\* The plan is exactly one do_nothing action carrying the reason.
SingleDoNothing(plan, reason) ==
    /\ Len(plan.actions) = 1
    /\ plan.actions[1].type = ActionDoNothing
    /\ plan.actions[1].payload = [reason_code |-> reason]

\* The room states a reader of the store observes.
RoomView(st) ==
    [ k \in { roomKey(e.tenant_id, e.room_id) : e \in Events } |-> RoomAt(st, k) ]

\* A step of a ProcessEvent call up to and including authorization, or any
\* step of a call the provider has denied.
UpToAuthzOrDenied(p) ==
    /\ proc'[p] # proc[p]
    /\ \/ proc[p].pc = "idle" /\ proc'[p].op = "event"
       \/ proc[p].op = "event" /\ proc[p].pc \in {"load_room", "gate", "authz"}
       \/ DeniedByAuthz(proc[p])

\* C5: when the provider denies, the planner is not run, the call creates no
\* pending generation and changes no room state, and the plan returned is
\* exactly one do_nothing action carrying the provider's reason.
C5_AuthzDenyStopsPipeline ==
    /\ [](\A i \in 1..Len(responses) :
            DeniedByAuthz(responses[i])
                => /\ ~responses[i].planned
                   /\ responses[i].err = NoError
                   /\ SingleDoNothing(responses[i].plan, responses[i].dec.ReasonCode))
    /\ [](\A p \in Procs : DeniedByAuthz(proc[p]) => ~proc[p].planned)
    /\ [][\A p \in Procs :
            UpToAuthzOrDenied(p) => /\ store'.pending = store.pending
                                    /\ RoomView(store') = RoomView(store)]_vars

\* An event the provider denied has been answered while a generation is
\* pending in its room.
C5_Witness ==
    \E i \in 1..Len(responses) :
        /\ DeniedByAuthz(responses[i])
        /\ responses[i].plan.actions[1].payload.reason_code = "policy_deny"
        /\ DOMAIN store.pending # {}

\* C6: a denied event (by the gate or by the provider) is answered with a
\* plan and no error; the plan is exactly one do_nothing action carrying the
\* deny reason, and a later delivery of the event (here: one made when no
\* call is in flight) gets that same plan, whatever the gate and the
\* provider would say by then.
C6_DeniedPlanIsReplayed ==
    \A i \in 1..Len(responses) :
        (DeniedByGate(responses[i]) \/ DeniedByAuthz(responses[i]))
            => /\ responses[i].err = NoError
               /\ SingleDoNothing(responses[i].plan, DenyReason(responses[i]))
               /\ Quiescent =>
                     \A reply \in AuthzReplies, nowv \in WallClock :
                         ProcessEvent(cfg, store, responses[i].req, reply, nowv).plan
                             = responses[i].plan

\* C7: a call whose audit record could not be appended fails with
\* internal.audit_write_failed and returns no plan.
C7_AuditFailureFailsCall ==
    \A i \in 1..Len(responses) :
        ~responses[i].auditOk
            => /\ responses[i].err = "internal.audit_write_failed"
               /\ responses[i].plan = NoPlan

\* C8: every audit record carries prev_hash and record_hash, and prev_hash
\* is the record_hash of the record before it (empty for the first).
C8_AuditHashChain ==
    \A i \in 1..Len(audit) :
        /\ {"prev_hash", "record_hash"} \subseteq DOMAIN audit[i]
        /\ audit[i].prev_hash = IF i = 1 THEN "" ELSE audit[i - 1].record_hash

\* C9: from the same stored state and configuration, with the same
\* authorization decision, processing the same event gives the same plan
\* and the same resulting stored state, whatever the clock reads.
C9_ProcessEventDeterministic ==
    \A ev \in ValidEvents, reply \in AuthzReplies, n1 \in WallClock, n2 \in WallClock :
        ProcessEvent(cfg, store, ev, reply, n1) = ProcessEvent(cfg, store, ev, reply, n2)

\* C10: two services that receive the same requests (the same timestamps in
\* them) and the same authorization decisions return the same plans,
\* whatever their clocks read.
C10_WallClockIndependent ==
    twin.plansA = twin.plansB

\* Responses of ProcessGeneration calls that returned a plan.
GenerationResponses ==
    { i \in 1..Len(responses) : responses[i].op = "generation"
                                  /\ responses[i].err = NoError }

IsSend(plan) ==
    /\ Len(plan.actions) = 1
    /\ plan.actions[1].type \in {ActionSendReply, ActionSendMessage}

\* C11: among the ProcessGeneration calls that carry one (tenant_id,
\* action_id), at most one returns a send_reply / send_message plan, and every
\* other one returns do_nothing with reason generation_unknown_action.
C11_PendingConsumedOnce ==
    \A i \in GenerationResponses, j \in GenerationResponses :
        /\ IsSend(responses[i].plan)
             \/ SingleDoNothing(responses[i].plan, "generation_unknown_action")
        /\ ( /\ i # j
             /\ responses[i].req.tenant_id = responses[j].req.tenant_id
             /\ responses[i].req.action_id = responses[j].req.action_id )
               => ~(IsSend(responses[i].plan) /\ IsSend(responses[j].plan))

\* The last two calls on the service were an event answered (first
\* delivery, not a replay) with a request_generation action and the
\* generation result for that action.
RoundTrip ==
    /\ unit.prev.op = "event"
    /\ unit.prev.err = NoError
    /\ ~IdempotencyHit(unit.prev.pre, unit.prev.req)
    /\ unit.prev.plan.actions[1].type = ActionRequestGeneration
    /\ unit.last.op = "generation"
    /\ unit.last.req.tenant_id = unit.prev.req.tenant_id
    /\ unit.last.req.action_id = unit.prev.plan.actions[1].action_id

\* C12: after an event answered with a request_generation action and, next,
\* the generation result for that action, the room's pending_queue_size is
\* 0, it is not generating, and its last_send_at is the instant of the
\* consumption.
C12_RoundTripRestoresRoom ==
    RoundTrip =>
        /\ IsSend(unit.last.plan)
        /\ GetRoomState(unit.store, unit.prev.req.tenant_id, unit.prev.req.room_id)
             = [Generating |-> FALSE, PendingQueueSize |-> 0, LastSendAt |-> unit.last.now]

\* A round trip in a room where an earlier event had been answered.
C12_Witness ==
    /\ RoundTrip
    /\ DOMAIN unit.prev.pre.idempotency # {}
    /\ unit.store.pending = EmptyMap

\* The pending record the last ProcessGeneration call found, if any.
LastFoundPending ==
    /\ unit.last.op = "generation"
    /\ unit.last.err = NoError
    /\ HasPending(unit.last.pre, unit.last.req.tenant_id, unit.last.req.action_id)

LastPending ==
    unit.last.pre.pending[pendingKey(unit.last.req.tenant_id, unit.last.req.action_id)]

\* C13: ProcessGeneration for an existing pending generation returns a plan
\* with exactly one action: send_reply when the pending record's intent is
\* REPLY or its reply_to is present and not the empty string, send_message
\* otherwise.
C13_GenerationActionType ==
    LastFoundPending =>
        /\ Len(unit.last.plan.actions) = 1
        /\ unit.last.plan.actions[1].type =
             IF LastPending.Kind = "REPLY"
                \/ (LastPending.ReplyTo # Nil /\ LastPending.ReplyTo[1] # "")
             THEN "send_reply" ELSE "send_message"

\* A MESSAGE intent whose reply_to is present but empty gives send_message.
C13_Witness ==
    /\ LastFoundPending
    /\ LastPending.Kind = "MESSAGE"
    /\ LastPending.ReplyTo = <<"">>
    /\ unit.last.plan.actions[1].type = "send_message"

\* The last call was an Authorize whose request to the external policy
\* endpoint failed.
LastAuthorizeFailed ==
    /\ unit.last.op = "authorize"
    /\ unit.cfg.Authz.Mode = "external_http"
    /\ unit.last.reply.failed

\* C14: when the external authorization call fails, the decision follows
\* fail_mode: deny gives allow=false with authz_error_deny, allow gives
\* allow=true with authz_error_allow, fallback_builtin gives the built-in
\* allow decision with authz_error_fallback_builtin.
C14_FailModeDecides ==
    LastAuthorizeFailed =>
        /\ unit.cfg.Authz.FailMode = "deny" =>
              unit.last.dec = [Allow |-> FALSE, ReasonCode |-> "authz_error_deny"]
        /\ unit.cfg.Authz.FailMode = "allow" =>
              unit.last.dec = [Allow |-> TRUE, ReasonCode |-> "authz_error_allow"]
        /\ unit.cfg.Authz.FailMode = "fallback_builtin" =>
              unit.last.dec = [Allow |-> BuiltinAllowAll.Allow,
                               ReasonCode |-> "authz_error_fallback_builtin"]
        /\ unit.cfg.Authz.FailMode \in {"deny", "allow", "fallback_builtin"}

\* A failed call under fail_mode fallback_builtin that was allowed.
C14_Witness ==
    /\ LastAuthorizeFailed
    /\ unit.cfg.Authz.FailMode = "fallback_builtin"
    /\ unit.last.dec.Allow

\* authz.circuit_breaker_failures: the consecutive-failure threshold the
\* resilience policy names (docs/authz-resilience.md); the configuration
\* read by the code has no such field.
CircuitBreakerFailures == 2

CircuitOpenReasons ==
    { "authz_circuit_open", "authz_circuit_open_deny", "authz_circuit_open_allow",
      "authz_circuit_open_fallback_builtin" }

\* C15: with authz.mode=external_http, an Authorize call made right after
\* circuit_breaker_failures consecutive failed calls finds the circuit open
\* and yields reason authz_circuit_open without asking the endpoint.
C15_CircuitOpens ==
    ( /\ unit.last.op = "authorize"
      /\ unit.cfg.Authz.Mode = "external_http"
      /\ unit.last.streak >= CircuitBreakerFailures )
        => unit.last.dec.ReasonCode \in CircuitOpenReasons

\* Scenario B: a service with reply_policy=mention_first and cooldown_ms=3000
\* has processed exactly e1 (mentioning @arbiter, answered with a
\* request_generation action) and then e2 for the same room, with
\* occurred_at one second later.
ScenarioB ==
    /\ unit.cfg.Planner.ReplyPolicy = "mention_first"
    /\ unit.cfg.Gate.CooldownMS = 3000
    /\ unit.n = 2
    /\ unit.prev.op = "event"
    /\ unit.prev.req = BaseEvent("e1", "hi @arbiter", TSFive)
    /\ unit.prev.err = NoError
    /\ unit.prev.plan.actions[1].type = ActionRequestGeneration
    /\ unit.last.op = "event"
    /\ unit.last.req = BaseEvent("e2", "hi @arbiter", TSSix)

\* C16 as stated: in scenario B the second event is answered with a
\* do_nothing plan whose reason is gate_cooldown, and Authorize has been
\* called exactly once.
C16_ScenarioB_Cooldown ==
    ScenarioB =>
        /\ unit.last.err = NoError
        /\ SingleDoNothing(unit.last.plan, "gate_cooldown")
        /\ unit.authzCalls = 1

\* C16 amended: in scenario B the second event is answered with a
\* do_nothing plan whose reason is gate_generating_lock, and Authorize has
\* been called exactly once.
C16_ScenarioB_GeneratingLock ==
    ScenarioB =>
        /\ unit.last.err = NoError
        /\ SingleDoNothing(unit.last.plan, "gate_generating_lock")
        /\ unit.authzCalls = 1

C16_Witness ==
    /\ ScenarioB
    /\ unit.last.plan.actions[1].type = ActionDoNothing
    /\ GetRoomState(unit.store, "t1", "r1").LastSendAt = ZeroTime

\* Events that break one rule of Event.Validate each: the version, a blank
\* id, an unknown actor type, a content type other than text, a timestamp
\* that is not RFC3339.
InvalidShapes ==
    { [BaseEvent("e2", "hi", TSFive) EXCEPT !.v = 1],
      [BaseEvent("e2", "hi", TSFive) EXCEPT !.event_id = " "],
      [BaseEvent("e2", "hi", TSFive) EXCEPT !.tenant_id = ""],
      [BaseEvent("e2", "hi", TSFive) EXCEPT !.actor_type = "bot"],
      [BaseEvent("e2", "hi", TSFive) EXCEPT !.content_type = "image"],
      BaseEvent("e2", "hi", TSBad) }

InvalidResponses ==
    { i \in 1..Len(responses) : responses[i].op = "event"
                                  /\ responses[i].req \in InvalidShapes }

\* An invalid event is answered with an error and no plan, no call carrying
\* one gets past validation, and from any state the service is in such a
\* call leaves the store as it is and does not reach authorization.
InvalidEventRejected ==
    /\ \A i \in InvalidResponses :
          responses[i].err # NoError /\ responses[i].plan = NoPlan
    /\ \A p \in Procs :
          (proc[p].pc # "idle" /\ proc[p].op = "event") => proc[p].req \notin InvalidShapes
    /\ \A ev \in InvalidShapes, reply \in AuthzReplies, nowv \in WallClock :
          LET r == ProcessEvent(cfg, store, ev, reply, nowv)
          IN  r.err # NoError /\ r.plan = NoPlan /\ r.store = store /\ r.authz = 0

\* The step that answers an invalid event changes neither the store
\* (idempotency records, rooms, pending generations, tenant-rate counters)
\* nor the audit log.
InvalidEventStep ==
    ( /\ Len(responses') = Len(responses) + 1
      /\ Len(responses') \in { i \in 1..Len(responses') :
                                 responses'[i].op = "event"
                                 /\ responses'[i].req \in InvalidShapes } )
        => UNCHANGED <<store, audit, authzCalls>>

\* C17: a ProcessEvent call whose event fails validation returns an error
\* and no plan, and changes nothing: no idempotency record, room state,
\* pending generation or tenant-rate counter is created or changed, and no
\* audit record is appended.
C17_InvalidEventChangesNothing ==
    []InvalidEventRejected /\ [][InvalidEventStep]_vars

\* An invalid event was rejected by a service that holds state.
C17_Witness ==
    /\ \E i \in InvalidResponses : i > 1 /\ responses[i].err # NoError
    /\ DOMAIN store.idempotency # {}
    /\ Len(audit) > 0

RECURSIVE SumOver(_, _)
SumOver(f, S) ==
    IF S = {} THEN 0
    ELSE LET b == CHOOSE x \in S : TRUE
         IN  f[b] + SumOver(f, S \ {b})

\* The increments a tenant's rate counter holds, over its minute buckets.
RateTotal(st, tenantID) ==
    IF tenantID \notin DOMAIN st.tenantRate THEN 0
    ELSE SumOver(st.tenantRate[tenantID], DOMAIN st.tenantRate[tenantID])

\* The event ids a tenant has submitted so far, answered or in flight.
SubmittedEventIDs(tenantID) ==
    { responses[i].req.event_id :
        i \in { j \in 1..Len(responses) : responses[j].op = "event"
                                          /\ responses[j].req.tenant_id = tenantID } }
    \cup { proc[p].req.event_id :
             p \in { q \in Procs : proc[q].pc # "idle" /\ proc[q].op = "event"
                                    /\ proc[q].req.tenant_id = tenantID } }

\* C18: the tenant-rate counter is incremented at most once for each
\* (tenant_id, event_id): a tenant's counter never holds more increments
\* than the tenant has submitted distinct event ids, replays and concurrent
\* duplicates included.
C18_RateCountedOncePerEvent ==
    \A t \in {"t1"} : RateTotal(store, t) <= Cardinality(SubmittedEventIDs(t))

\* C19: once an idempotency record exists for a (tenant_id, event_id), no
\* later step changes the plan stored in it.
C19_IdempotencyRecordImmutable ==
    [][ \A k \in DOMAIN store.idempotency :
          /\ k \in DOMAIN store'.idempotency
          /\ store'.idempotency[k] = store.idempotency[k] ]_vars

\* The pending-generation records that belong to the room stored under rKey.
PendingOfRoom(st, rKey) ==
    { k \in DOMAIN st.pending :
        roomKey(st.pending[k].TenantID, st.pending[k].RoomID) = rKey }

\* C20: in every state of the store, each room's pending_queue_size equals
\* the number of pending-generation records of that room.
C20_QueueSizeCountsPending ==
    /\ \A rKey \in DOMAIN store.rooms :
          store.rooms[rKey].PendingQueueSize = Cardinality(PendingOfRoom(store, rKey))
    /\ \A k \in DOMAIN store.pending :
          roomKey(store.pending[k].TenantID, store.pending[k].RoomID) \in DOMAIN store.rooms

\* A terminal job or approval state stays as it is.
TerminalStateKept ==
    \A k \in DOMAIN aux.states :
        (\E kind \in {"job", "approval"} :
            /\ k = entityKey(LifecycleEvent(kind, "", ""))
            /\ aux.states[k] \in TerminalOf(kind))
          => aux'.states[k] = aux.states[k]

\* The last event was a new one for an entity whose state was terminal.
TransitionAttempted ==
    /\ aux.n > 0
    /\ ~aux.hit
    /\ entityKey(aux.req) \in DOMAIN aux.pre
    /\ aux.pre[entityKey(aux.req)] \in TerminalOf(aux.req.kind)

\* C21: once a job state is completed, failed or cancelled, or an approval
\* state is approved, rejected or expired, no later event changes it, and
\* each such attempt yields conflict.invalid_transition.
C21_TerminalStatesImmutable ==
    /\ [](TransitionAttempted => aux.err = "conflict.invalid_transition")
    /\ [][TerminalStateKept]_vars

\* An event asking a completed job to go back to started was refused.
C21_Witness ==
    /\ TransitionAttempted
    /\ aux.req.kind = "job"
    /\ aux.pre[entityKey(aux.req)] = "completed"
    /\ aux.req.status = "started"
    /\ aux.states = aux.pre

SameActionResultKey(a, b) ==
    /\ a.tenant_id = b.tenant_id
    /\ a.plan_id = b.plan_id
    /\ a.action_id = b.action_id

\* The accepted action-result writes, and for a write the first accepted
\* one under the same (tenant_id, plan_id, action_id).
AcceptedResults ==
    { i \in 1..Len(responses) : responses[i].op = "action_result"
                                  /\ responses[i].err = NoError }

\* C22: for any (tenant_id, plan_id, action_id) the first action-result
\* written is kept: a later write with the same payload succeeds, and a
\* later write with a different payload returns conflict.payload_mismatch.
C22_ActionResultFirstWriteWins ==
    \A i \in AcceptedResults, j \in 1..Len(responses) :
        ( /\ i < j
          /\ responses[j].op = "action_result"
          /\ SameActionResultKey(responses[i].req, responses[j].req)
          /\ \A h \in AcceptedResults :
                SameActionResultKey(responses[h].req, responses[i].req) => i <= h
          /\ sinkOk )
            => IF responses[j].req = responses[i].req
               THEN responses[j].err = NoError
               ELSE responses[j].err = "conflict.payload_mismatch"

\* C23: a ProcessEvent call whose context is cancelled while it is in
\* flight (during the authorization call) persists no idempotency record.
C23_CancelledCallPersistsNothing ==
    (unit.last.op = "event" /\ unit.last.cancelled)
        => unit.store.idempotency = unit.last.pre.idempotency

\* The calls whose Append succeeded, in the order they returned.
SuccessfulAppends ==
    SelectSeq(responses, LAMBDA r : r.err = NoError /\ r.auditOk)

CorrelationOf(r) ==
    IF r.op = "event" THEN r.req.event_id ELSE r.req.action_id

\* A step leaves the audit log as it is or adds one record at its end.
AuditStepAppends ==
    \/ audit' = audit
    \/ /\ Len(audit') = Len(audit) + 1
       /\ SubSeq(audit', 1, Len(audit)) = audit

\* After n successful Appends the log holds n records, in append order.
AuditHoldsAppends ==
    /\ Len(audit) = Len(SuccessfulAppends)
    /\ \A k \in 1..Len(audit) :
          /\ audit[k].tenant_id = SuccessfulAppends[k].req.tenant_id
          /\ audit[k].correlation_id = CorrelationOf(SuccessfulAppends[k])

\* C24: the audit log is append-only: each successful Append adds exactly
\* one record after all earlier ones and never changes or removes an earlier
\* record; concurrent Appends are serialized, so after n successful Appends
\* the log holds exactly n records in append order.
C24_AuditAppendOnly ==
    []AuditHoldsAppends /\ [][AuditStepAppends]_vars

\* Two records appended by calls that overlapped, a third call about to
\* append.
C24_Witness ==
    /\ Len(audit) = 2
    /\ audit[1].correlation_id # audit[2].correlation_id
    /\ \E p \in Procs : proc[p].pc = "audit"

\* The rules of the gate, in order, on the inputs of the last call.
GeneratingLockFails == aux.room.Generating

CooldownFails ==
    /\ aux.gcfg.CooldownMS > 0
    /\ aux.room.LastSendAt # ZeroTime
    /\ aux.eventTS * 1000 < aux.room.LastSendAt * 1000 + aux.gcfg.CooldownMS

BackpressureFails ==
    /\ aux.gcfg.MaxQueue > 0
    /\ aux.room.PendingQueueSize >= aux.gcfg.MaxQueue

TenantRateFails ==
    /\ aux.gcfg.TenantRateLimitPerMin > 0
    /\ aux.tenantCount >= aux.gcfg.TenantRateLimitPerMin

\* C26: Evaluate returns the reason of the first failing rule in the order
\* generating lock, cooldown, backpressure, tenant rate, and allows exactly
\* when no rule fails.
C26_GateFirstFailingRule ==
    aux # Nil =>
        /\ aux.result.Allowed <=>
              ~(GeneratingLockFails \/ CooldownFails \/ BackpressureFails \/ TenantRateFails)
        /\ aux.result.ReasonCode =
              (CASE GeneratingLockFails -> "gate_generating_lock"
                 [] ~GeneratingLockFails /\ CooldownFails -> "gate_cooldown"
                 [] ~GeneratingLockFails /\ ~CooldownFails /\ BackpressureFails ->
                      "gate_backpressure"
                 [] ~GeneratingLockFails /\ ~CooldownFails /\ ~BackpressureFails
                      /\ TenantRateFails -> "gate_tenant_rate_limit"
                 [] OTHER -> "")

\* An event exactly at the end of the cooldown passes that rule and is
\* stopped by the next failing one.
C26_Witness ==
    /\ aux # Nil
    /\ aux.gcfg.CooldownMS = 3000 /\ aux.room.LastSendAt = 5 /\ aux.eventTS = 8
    /\ ~aux.room.Generating
    /\ BackpressureFails /\ TenantRateFails
    /\ aux.result = GateDeny("gate_backpressure")

\* What the last two Decide calls were given, read off the events: whether
\* reply_to is present and not the empty string, whether it is present and
\* has a character other than white space, and whether the text contains
\* @arbiter in any letter case.
HasReplyTo(ev) == ev.reply_to \notin {Nil, <<"">>}

HasNonBlankReplyTo(ev) == ev.reply_to \notin {Nil, <<"">>, <<" ">>}

Mentions(ev) == ev.text \in {"hi @arbiter", "hi @Arbiter"}

TwoDecisions == aux.prev # Nil /\ aux.last # Nil

\* C25 as stated: for a fixed planner configuration, Decide returns the
\* same intent for any two events that have the same event_id.
C25_SameEventIDSameIntent ==
    (TwoDecisions /\ aux.prev.ev.event_id = aux.last.ev.event_id)
        => aux.prev.intent = aux.last.intent

\* C25 amended: ... for any two events that have the same event_id, agree
\* on whether reply_to is non-blank and agree on whether the text mentions
\* @arbiter.
C25_SameEventIDAndContentKind ==
    ( /\ TwoDecisions
      /\ aux.prev.ev.event_id = aux.last.ev.event_id
      /\ HasNonBlankReplyTo(aux.prev.ev) <=> HasNonBlankReplyTo(aux.last.ev)
      /\ Mentions(aux.prev.ev) <=> Mentions(aux.last.ev) )
        => aux.prev.intent = aux.last.intent

\* Two different events with the same id, one mentioning @arbiter and the
\* other @Arbiter, under a policy that looks at the mention.
C25_Witness ==
    /\ TwoDecisions
    /\ aux.pcfg.ReplyPolicy = "mention_first"
    /\ aux.prev.ev.event_id = aux.last.ev.event_id
    /\ aux.prev.ev.text = "hi @arbiter" /\ aux.last.ev.text = "hi @Arbiter"
    /\ aux.prev.ev.reply_to = Nil /\ aux.last.ev.reply_to = <<" ">>
    /\ aux.prev.intent = "REPLY" /\ aux.last.intent = "REPLY"

\* seed < reply_probability, with the seed fnv1a64(event_id) mod 10000 in
\* ten-thousandths: 3043 for e1 and 1254 for e2.
SeedBelow(ev, probability) ==
    (IF ev.event_id = "e1" THEN 3043 ELSE 1254) < probability

\* The intent the rules give once the reply_to rule did not apply.
IntentByPolicy(pcfg, ev) ==
    CASE pcfg.ReplyPolicy = "all" -> "MESSAGE"
      [] pcfg.ReplyPolicy = "reply_only" ->
           IF Mentions(ev) THEN "REPLY" ELSE "IGNORE"
      [] pcfg.ReplyPolicy = "mention_first" ->
           IF Mentions(ev) THEN "REPLY"
           ELSE IF SeedBelow(ev, pcfg.ReplyProbability) THEN "MESSAGE" ELSE "IGNORE"
      [] pcfg.ReplyPolicy = "probabilistic" ->
           IF SeedBelow(ev, pcfg.ReplyProbability) THEN "MESSAGE" ELSE "IGNORE"
      [] OTHER -> "IGNORE"

\* C27 as stated: Decide picks the intent by the first matching rule: a
\* non-empty reply_to gives REPLY; otherwise the policy decides (all:
\* MESSAGE; reply_only: REPLY if mentioned else IGNORE; mention_first: REPLY
\* if mentioned, else MESSAGE if seed < reply_probability, else IGNORE;
\* probabilistic: MESSAGE if seed < reply_probability else IGNORE; any other
\* policy: IGNORE).
C27_DecideRules ==
    aux.last # Nil =>
        aux.last.intent = IF HasReplyTo(aux.last.ev) THEN "REPLY"
                          ELSE IntentByPolicy(aux.pcfg, aux.last.ev)

\* C27 amended: the same rules, the first one applying to a reply_to that is
\* non-empty after trimming white space.
C27_DecideRulesTrimmed ==
    aux.last # Nil =>
        aux.last.intent = IF HasNonBlankReplyTo(aux.last.ev) THEN "REPLY"
                          ELSE IntentByPolicy(aux.pcfg, aux.last.ev)

\* A reply_to of one space under policy all: the reply_to rule does not
\* apply and the policy gives MESSAGE.
C27_Witness ==
    /\ aux.last # Nil
    /\ aux.pcfg.ReplyPolicy = "all"
    /\ aux.last.ev.reply_to = <<" ">>
    /\ aux.last.intent = "MESSAGE"

\* The last call was a ProcessEvent that got to the planner: valid, not a
\* replay, and allowed by the gate and by authorization.
ReachedPlanner ==
    /\ unit.last.op = "event"
    /\ unit.last.err = NoError
    /\ ~IdempotencyHit(unit.last.pre, unit.last.req)
    /\ unit.last.allowed

LastIntent == Decide(unit.cfg.Planner, unit.last.req)

LastRoomBefore ==
    GetRoomState(unit.last.pre, unit.last.req.tenant_id, unit.last.req.room_id)

LastRoomAfter ==
    GetRoomState(unit.store, unit.last.req.tenant_id, unit.last.req.room_id)

\* C28: when the planner's intent is REPLY or MESSAGE, ProcessEvent returns
\* a plan with exactly one request_generation action, inserts one pending
\* generation keyed by that action's action_id, sets the room's generating
\* flag and increments its pending_queue_size by one; when the intent is
\* IGNORE it returns do_nothing(planner_ignore) and leaves room state and
\* pending records unchanged.
C28_PlanEmission ==
    ReachedPlanner =>
        /\ LastIntent \in {"REPLY", "MESSAGE"} =>
              LET key == pendingKey(unit.last.req.tenant_id,
                                    unit.last.plan.actions[1].action_id)
              IN  /\ Len(unit.last.plan.actions) = 1
                  /\ unit.last.plan.actions[1].type = "request_generation"
                  /\ key \notin DOMAIN unit.last.pre.pending
                  /\ DOMAIN unit.store.pending = DOMAIN unit.last.pre.pending \cup {key}
                  /\ \A k \in DOMAIN unit.last.pre.pending :
                        unit.store.pending[k] = unit.last.pre.pending[k]
                  /\ unit.store.pending[key].ActionID = unit.last.plan.actions[1].action_id
                  /\ unit.store.pending[key].RoomID = unit.last.req.room_id
                  /\ LastRoomAfter.Generating
                  /\ LastRoomAfter.PendingQueueSize = LastRoomBefore.PendingQueueSize + 1
        /\ LastIntent = "IGNORE" =>
              /\ SingleDoNothing(unit.last.plan, "planner_ignore")
              /\ LastRoomAfter = LastRoomBefore
              /\ unit.store.pending = unit.last.pre.pending
        /\ LastIntent \in {"REPLY", "MESSAGE", "IGNORE"}

\* A MESSAGE intent emitted in a room that had sent before.
C28_Witness ==
    /\ ReachedPlanner
    /\ LastIntent = "MESSAGE"
    /\ LastRoomBefore.LastSendAt # ZeroTime
    /\ LastRoomAfter.PendingQueueSize = 1

\* A step of goroutine p that belongs to a replayed ProcessEvent call: the
\* idempotency hit itself, or the audit append and return that follows it.
ReplayCallStep(p) ==
    /\ proc'[p] # proc[p]
    /\ proc[p].replay \/ proc'[p].replay

\* The audit record of a replayed event.
IsReplayRecord(r, ev) ==
    /\ r.result = "idempotency_hit"
    /\ r.action = "process_event"
    /\ r.tenant_id = ev.tenant_id
    /\ r.correlation_id = ev.event_id

ValidatedCalls ==
    SelectSeq(responses, LAMBDA r : r.err = NoError)

\* C30: every ProcessEvent call and every ProcessGeneration call that
\* passes validation appends exactly one audit record, whatever its outcome
\* (accepted, gate-denied, authorization-denied, replayed, unknown action),
\* and that record carries the request's tenant_id and its event_id (or
\* action_id) as correlation_id: the log holds one record per returned
\* call, in return order.
C30_OneAuditRecordPerCall ==
    /\ Len(audit) = Len(ValidatedCalls)
    /\ \A k \in 1..Len(ValidatedCalls) :
          k <= Len(audit) =>
            /\ audit[k].tenant_id = ValidatedCalls[k].req.tenant_id
            /\ audit[k].correlation_id = CorrelationOf(ValidatedCalls[k])

\* The tenant-rate bucket of the last ProcessEvent call (its events carry
\* a parsed timestamp).
LastBucket == MinuteBucket(ParsedTS(unit.last.req))

\* C31: ProcessEvent increments the tenant-rate bucket only for an event
\* that passes the gate and authorization and reaches the persist stage,
\* planner-ignored events included; a call denied by the gate or by
\* authorization (and a replay, and an invalid event) leaves every
\* tenant-rate bucket as it was.
C31_RateOnlyOnAccepted ==
    unit.last.op = "event" =>
      IF ReachedPlanner
      THEN TenantRateCount(unit.store, unit.last.req.tenant_id, LastBucket)
             = TenantRateCount(unit.last.pre, unit.last.req.tenant_id, LastBucket) + 1
      ELSE unit.store.tenantRate = unit.last.pre.tenantRate

\* A planner-ignored event has been counted right after a denied one was
\* not.
C31_Witness ==
    /\ ReachedPlanner
    /\ LastIntent = IntentIgnore
    /\ unit.prev.op = "event"
    /\ unit.prev.err = NoError
    /\ ~unit.prev.allowed
    /\ ~IdempotencyHit(unit.prev.pre, unit.prev.req)
    /\ TenantRateCount(unit.store, "t1", LastBucket) = 1

\* C32: the tenant-rate bucket of an event is floor(occurred_at in seconds
\* / 60) for every timestamp the validator accepts, timestamps before
\* 1970-01-01T00:00:00Z included, so two events share a bucket exactly when
\* they fall in the same 60-second window.
C32_BucketIsFloor ==
    aux # Nil =>
      /\ aux.bucketA = aux.a \div SecondsPerMinute
      /\ aux.bucketB = aux.b \div SecondsPerMinute
      /\ (aux.bucketA = aux.bucketB) <=>
            (aux.a \div SecondsPerMinute = aux.b \div SecondsPerMinute)

\* The buckets a store holds for a tenant.
BucketsOf(st, tenantID) ==
    IF tenantID \in DOMAIN st.tenantRate THEN DOMAIN st.tenantRate[tenantID] ELSE {}

\* C33: IncrementTenantRate(tenant, b) raises the count of bucket b of that
\* tenant by exactly one, deletes only buckets of that tenant that are
\* older than b-5, and changes no other bucket: that tenant's buckets
\* b-5..b-1 and above b, and every bucket of every other tenant, keep
\* their counts.
C33_IncrementFrame ==
    aux.last # Nil =>
      LET t == aux.last.tenant
          b == aux.last.bucket
          pre == aux.last.pre
          post == aux.store
      IN  /\ TenantRateCount(post, t, b) = TenantRateCount(pre, t, b) + 1
          /\ b \in BucketsOf(post, t)
          /\ BucketsOf(post, t) \subseteq BucketsOf(pre, t) \cup {b}
          /\ \A x \in BucketsOf(pre, t) \ {b} :
                IF x < b - 5
                THEN x \notin BucketsOf(post, t)
                ELSE /\ x \in BucketsOf(post, t)
                     /\ post.tenantRate[t][x] = pre.tenantRate[t][x]
          /\ \A u \in RateTenants \ {t} :
                /\ BucketsOf(post, u) = BucketsOf(pre, u)
                /\ \A x \in BucketsOf(pre, u) :
                      post.tenantRate[u][x] = pre.tenantRate[u][x]
          /\ DOMAIN post.tenantRate = DOMAIN pre.tenantRate \cup {t}

\* An increment of bucket 6 has deleted bucket 0 and kept bucket 1 (= 6-5)
\* of its tenant, while the other tenant holds a bucket 0.
C33_Witness ==
    /\ aux.last # Nil
    /\ aux.last.tenant = "t1"
    /\ aux.last.bucket = 6
    /\ BucketsOf(aux.last.pre, "t1") = {0, 1}
    /\ BucketsOf(aux.store, "t1") = {1, 6}
    /\ BucketsOf(aux.store, "t2") = {0}

\* The events of a tenant and minute bucket that passed the gate and
\* reached the persist stage, by event id (a resubmitted event counts once).
CountedEvents(tenantID, minuteBucket) ==
    { responses[i].req.event_id :
        i \in { j \in 1..Len(responses) :
                  /\ responses[j].op = "event"
                  /\ responses[j].planned
                  /\ responses[j].req.tenant_id = tenantID
                  /\ MinuteBucket(ParsedTS(responses[j].req)) = minuteBucket } }

\* C34: with tenant_rate_limit_per_min = L > 0, for every tenant and every
\* minute bucket the number of events of that bucket that pass the gate
\* and reach the persist stage never exceeds L, whatever the order of the
\* events' occurred_at and however the ProcessEvent calls interleave.
C34_RateLimitHolds ==
    cfg.Gate.TenantRateLimitPerMin > 0 =>
      \A ev \in LimitEvents :
        Cardinality(CountedEvents(ev.tenant_id, MinuteBucket(ParsedTS(ev))))
          <= cfg.Gate.TenantRateLimitPerMin

\* Every request_generation action returned to a caller has been answered
\* by a ProcessGeneration call that carried its (tenant_id, action_id) and
\* has returned after it.
AllGenerationsAnswered ==
    \A i \in 1..Len(responses) :
      (/\ responses[i].op = "event"
       /\ Len(responses[i].plan.actions) = 1
       /\ responses[i].plan.actions[1].type = ActionRequestGeneration)
      => \E j \in (i + 1)..Len(responses) :
            /\ responses[j].op = "generation"
            /\ responses[j].err = NoError
            /\ responses[j].req.tenant_id = responses[i].req.tenant_id
            /\ responses[j].req.action_id = responses[i].plan.actions[1].action_id

\* C35: if every request_generation action returned to a caller is answered
\* by a ProcessGeneration call carrying its (tenant_id, action_id), every
\* room reaches generating = false and pending_queue_size = 0, concurrent
\* duplicate submissions of an event included; no room stays locked.  Once
\* all answers are in and no call is running nothing but a further event
\* can change a room, so the rooms must be unlocked by then.
C35_AnsweredRoomsUnlock ==
    (Quiescent /\ AllGenerationsAnswered /\ DOMAIN store.pending = {}) =>
      \A k \in DOMAIN store.rooms :
        /\ ~store.rooms[k].Generating
        /\ store.rooms[k].PendingQueueSize = 0

\* C36: the generating lock admits at most one outstanding generation per
\* room: in every reachable state, with concurrent ProcessEvent calls for
\* different events of the same room, each room has at most one
\* pending-generation record and pending_queue_size <= 1.
C36_OneOutstandingGeneration ==
    \A k \in DOMAIN store.rooms :
      /\ Cardinality(PendingOfRoom(store, k)) <= 1
      /\ store.rooms[k].PendingQueueSize <= 1

\* C37: idempotency records of distinct (tenant_id, event_id) pairs never
\* alias, for all ids validation accepts (ids that contain ':' included):
\* ProcessEvent never returns, for an event of tenant T, a plan stored for
\* another (tenant_id, event_id), so the returned plan's tenant_id equals
\* the event's tenant_id.
C37_PlanOfOwnTenant ==
    (unit.last.op = "event" /\ unit.last.err = NoError) =>
      unit.last.plan.tenant_id = unit.last.req.tenant_id

\* C38: in every reachable state of the store, under any interleaving of
\* ProcessEvent and ProcessGeneration calls, each room has
\* pending_queue_size >= 0, and generating is true exactly when
\* pending_queue_size > 0.
C38_GeneratingIffQueued ==
    \A k \in DOMAIN store.rooms :
      /\ store.rooms[k].PendingQueueSize >= 0
      /\ store.rooms[k].Generating <=> (store.rooms[k].PendingQueueSize > 0)

\* A generation has been consumed while another slot of the room's queue
\* is still taken: the room stays locked with one slot.
C38_Witness ==
    \E k \in DOMAIN store.rooms :
      /\ store.rooms[k].LastSendAt # ZeroTime
      /\ store.rooms[k].PendingQueueSize = 1
      /\ store.rooms[k].Generating

\* The room snapshot a call in flight took with GetRoomState.
HasSnapshot(p) ==
    /\ proc[p].op = "event"
    /\ proc[p].pc \notin {"idle", "load_room"}
    /\ ~proc[p].replay

\* C39: with gate.max_queue >= 1 no ProcessEvent call, in any sequence or
\* interleaving, is answered with reason gate_backpressure: every room
\* snapshot the gate sees with pending_queue_size > 0 also has
\* generating = true, so the generating-lock rule denies first.
C39_NoBackpressure ==
    cfg.Gate.MaxQueue >= 1 =>
      /\ \A p \in Procs :
            HasSnapshot(p) =>
              /\ proc[p].room.PendingQueueSize > 0 => proc[p].room.Generating
              /\ proc[p].gate.ReasonCode # "gate_backpressure"
      /\ \A i \in 1..Len(responses) :
            /\ responses[i].gate.ReasonCode # "gate_backpressure"
            /\ \A a \in 1..Len(responses[i].plan.actions) :
                  responses[i].plan.actions[a].type = ActionDoNothing =>
                    responses[i].plan.actions[a].payload.reason_code # "gate_backpressure"

\* A call saw a room whose queue is at max_queue and was denied by the
\* generating lock.
C39_Witness ==
    \E p \in Procs :
      /\ HasSnapshot(p)
      /\ proc[p].stage = "gate"
      /\ proc[p].room.PendingQueueSize >= cfg.Gate.MaxQueue
      /\ proc[p].gate.ReasonCode = "gate_generating_lock"

\* The last call was a valid generation result whose (tenant_id,
\* action_id) has a pending record with another plan_id.
PlanIDMismatch ==
    /\ unit.last.op = "generation"
    /\ unit.last.err = NoError
    /\ HasPending(unit.last.pre, unit.last.req.tenant_id, unit.last.req.action_id)
    /\ unit.last.pre.pending[pendingKey(unit.last.req.tenant_id,
                                        unit.last.req.action_id)].PlanID
         # unit.last.req.plan_id

\* C40: ProcessGeneration consumes a pending generation only when the
\* result's plan_id equals the plan_id of the pending record: a result with
\* a matching (tenant_id, action_id) but another plan_id leaves the pending
\* generation and the room state unchanged and emits no send_reply or
\* send_message action.
C40_PlanIDMustMatch ==
    PlanIDMismatch =>
      /\ unit.store = unit.last.pre
      /\ \A a \in 1..Len(unit.last.plan.actions) :
            unit.last.plan.actions[a].type \notin {ActionSendReply, ActionSendMessage}

====
